---- MODULE Spec2Model ----
(***************************************************************************)
(* Scan orchestration and enrichment pipeline of src/app.py: the three     *)
(* threading.Event flags, the session dedup set, the content store, the    *)
(* update_queue, the scanner threads (perform_api_scan), the fast-pool     *)
(* item tasks (process_and_queue_api_item), the slow-pool enrichment tasks *)
(* (generate_summary_and_update) and the /stream consumers.                *)
(*                                                                         *)
(* The process is modelled with MDB_URI and the Azure OpenAI variables set *)
(* (content_collection and azure_client are not None).                     *)
(***************************************************************************)
EXTENDS Integers, Sequences, FiniteSets, TLC

\* ---------------------------------------------------------------- bounds
MaxSessions == 1
MaxIds == 2
MaxCmds == 2
MaxFeedPages == 2
MaxStartPage == 3
MaxConsumers == 2
MaxEvents == 4
MaxMatches == 3
MaxText == 2
MaxKeyed == 2
MaxRules == 2
MaxReplaces == 2
MaxGhPages == 2
MaxPerPage == 13

\* ------------------------------------------------------ program constants
PAGES_PER_SCAN == 10
MAX_AI_WORKERS == 5
MAX_RESULTS_PER_RUN == 25

Sessions == 1..MaxSessions
Ids == 1..MaxIds
Consumers == 1..MaxConsumers

\* ------------------------------------------------------------------ text
\* A text is a sequence of tokens; the tokens are cut so that the two
\* reserved prefixes "[Error:" and "[Status:" are two tokens each.
ErrorMarker == <<"[Error", ":">>
StatusMarker == <<"[Status", ":">>
FailureMarkers == {ErrorMarker, StatusMarker}

TextManualPause == <<"[Status", ":", " Paused. Request cancelled.]">>
TextRateLimitBlocked == <<"[Status", ":", " Paused due to rate limit. Request not sent.]">>
TextRateLimitError == <<"[Error", ":", " Paused due to rate limit", ":", " e]">>
TextLLMError == <<"[Error", " calling LLM", ":", " e]">>
TextReply == <<"summary">>
NoText == <<>>

\* str.startswith(tuple_of_prefixes)
startswith(text, prefixes) ==
    \E p \in prefixes : Len(text) >= Len(p) /\ SubSeq(text, 1, Len(p)) = p

NoDoc == [present |-> FALSE, ai_summary |-> NoText]
NoLabel == "None"
Doc(summary) == [present |-> TRUE, ai_summary |-> summary]

\* ------------------------------------------------------------------ feed
\* The external feed: pages 1..MaxFeedPages hold items, later pages are empty.
\* Odd pages list every id, even pages list id 1 only, so that an id is
\* matched again later in a session and again in a later session.
AllIds(n) == [k \in 1..n |-> k]
PageItems(p) ==
    IF p < 1 \/ p > MaxFeedPages THEN <<>>
    ELSE IF p % 2 = 1 THEN AllIds(MaxIds) ELSE <<1>>

VARIABLES
    is_manually_paused,            \* threading.Event
    is_scan_cancelled,             \* threading.Event
    is_paused_due_to_rate_limit,   \* threading.Event
    processed_ids_this_session,    \* set of composite ids
    content_collection,            \* composite id -> stored document
    update_queue,                  \* queue.Queue contents, head first: each event stands as its append index
    taken,                         \* number of events removed by get() so far
    scan_events,                   \* session -> the events that scanner thread has put, in order
    item_events,                   \* id -> the events put for the id by its item and enrichment tasks, in order
    ops_events,                    \* the events put by route handlers, in order
    connected_at,                  \* consumer -> number of events appended when it connected (-1: not connected)
    received,                      \* consumer -> append indices of the events it was handed
    scan_pc,                       \* session -> position in perform_api_scan
    start_page,                    \* session -> start_page argument
    current_page,                  \* session -> current_page
    iter,                          \* session -> loop variable i
    items,                         \* session -> item list of the fetched page
    item_idx,                      \* session -> index of the next item of the page
    fetched,                       \* session -> pages requested so far, in order
    saw_cancel,                    \* session -> it has read is_scan_cancelled as set
    fast_queue,                    \* id -> queued process_and_queue_api_item calls
    item_pc,                       \* id -> position of the call that passed the dedup gate
    ai_pc,                         \* id -> position of generate_summary_and_update
    ai_summary,                    \* id -> text returned by get_llm_summary
    submits,                       \* id -> number of ai_executor.submit calls
    releases,                      \* id -> number of discards of the id
    ai_calls,                      \* id -> number of provider calls started
    handled,                       \* id -> number of process_and_queue_api_item calls that ran
    queued_at_cancel,              \* ids whose enrichment task was queued when cancel was requested
    matches,                       \* number of items submitted by scanners that are not modelled step by step
    keyed,                         \* the items for which unique_item_id was built: source name, provider id, composite id
    SEARCH_PATTERNS,               \* the installed dict label -> compiled pattern, in insertion order
    patterns_list,                 \* argument of the last call of update_search_patterns
    upd_idx,                       \* index of the next item of patterns_list (0: no call in progress)
    new_patterns,                  \* the dict that call is building
    installed_list,                \* argument of the last call that reached its assignment to SEARCH_PATTERNS
    replaces,                      \* number of calls of update_search_patterns so far
    match_pc,                      \* position of one check_if_item_matches call
    content_to_check,              \* its content_to_check
    current_patterns,              \* its copy of SEARCH_PATTERNS
    matched_label,                 \* what its last call returned
    ai_busy,                       \* slow-pool workers held by provider calls that do not return
    noid_queue,                    \* queued process_and_queue_api_item calls for items whose id field is missing
    skipped,                       \* number of such calls that ran
    gh_pc,                         \* git-sauron: position of perform_github_scan
    gh_start_page,                 \* git-sauron: start_page argument
    gh_current_page,               \* git-sauron: current_page
    gh_api_url,                    \* git-sauron: page the next request asks for (0: api_url is None)
    gh_issues,                     \* git-sauron: number of issues of the fetched page
    gh_idx,                        \* git-sauron: index of the next issue of the page
    matches_found_this_run,        \* git-sauron: matches_found_this_run
    gh_done,                       \* git-sauron: process_and_queue_github_issue tasks that have put their item
    gh_events,                     \* git-sauron: status events put, each with the number of items put before it
    gh_checked,                    \* git-sauron: page -> issues of it that went through check_if_issue_matches
    gh_rate,                       \* git-sauron: is_paused_due_to_rate_limit
    gh_exit,                       \* git-sauron: how the while loop was left
    cmds                           \* number of external commands so far

flagVars == <<is_manually_paused, is_scan_cancelled, is_paused_due_to_rate_limit>>
streamVars == <<taken, connected_at, received>>
scanVars == <<scan_pc, start_page, current_page, iter, items, item_idx, fetched, saw_cancel>>
itemVars == <<fast_queue, item_pc, handled>>
aiVars == <<ai_pc, ai_summary, submits, releases, ai_calls, queued_at_cancel>>
queueVars == <<update_queue, scan_events, item_events, ops_events>>
skipVars == <<noid_queue, skipped>>
ghVars == <<gh_pc, gh_start_page, gh_current_page, gh_api_url, gh_issues, gh_idx,
            matches_found_this_run, gh_done, gh_events, gh_checked, gh_rate, gh_exit>>
patternVars == <<SEARCH_PATTERNS, patterns_list, upd_idx, new_patterns, installed_list, replaces,
                 match_pc, content_to_check, current_patterns, matched_label>>
vars == <<flagVars, processed_ids_this_session, content_collection, queueVars,
          streamVars, scanVars, itemVars, aiVars, matches, keyed, patternVars,
          ai_busy, skipVars, ghVars, cmds>>

\* ---------------------------------------------------------------- events
StatusEvent(st, why) == [type |-> "status", status |-> st, reason |-> why]
ScanPausedEvent(np) ==
    [type |-> "status", status |-> "scan_paused", reason |-> "limit", next_page |-> np]
ApiItemEvent(id, st, origin) == [type |-> "api_item", id |-> id, summary_status |-> st, origin |-> origin]
SummaryEvent(id, text, origin) == [type |-> "summary_update", id |-> id, ai_summary |-> text, origin |-> origin]

\* update_queue.put(event): the event joins the tail of the queue. The queue
\* holds the append index of each event; the payload is recorded with the
\* thread that put it.
put(q, n) == Append(q, n)
NextIndex == taken + Len(update_queue) + 1

\* queue.Queue() is built with the default maxsize; put() blocks while a
\* queue with maxsize > 0 holds maxsize events.
maxsize_Bounded == MaxEvents - 2
maxsize == 0
CanPut == maxsize <= 0 \/ Len(update_queue) < maxsize

PutByScan(s, e) ==
    /\ CanPut
    /\ update_queue' = put(update_queue, NextIndex)
    /\ scan_events' = [scan_events EXCEPT ![s] = Append(scan_events[s], e)]
    /\ UNCHANGED <<matches, keyed, patternVars, ai_busy, skipVars, ghVars, item_events, ops_events>>

PutByItem(id, e) ==
    /\ CanPut
    /\ update_queue' = put(update_queue, NextIndex)
    /\ item_events' = [item_events EXCEPT ![id] = Append(item_events[id], e)]
    /\ UNCHANGED <<matches, keyed, patternVars, ai_busy, skipVars, ghVars, scan_events, ops_events>>

PutByHandler(e) ==
    /\ CanPut
    /\ update_queue' = put(update_queue, NextIndex)
    /\ ops_events' = Append(ops_events, e)
    /\ UNCHANGED <<matches, keyed, patternVars, ai_busy, skipVars, ghVars, scan_events, item_events>>

\* ------------------------------------------------------------------ Init
InitStores == {[id \in Ids |-> IF id \in S THEN Doc(TextReply) ELSE NoDoc] : S \in SUBSET {1}}

InitCommon ==
    /\ is_manually_paused = FALSE
    /\ is_scan_cancelled = FALSE
    /\ is_paused_due_to_rate_limit = FALSE
    /\ processed_ids_this_session = {}
    /\ update_queue = <<>>
    /\ scan_events = [s \in Sessions |-> <<>>]
    /\ item_events = [id \in Ids |-> <<>>]
    /\ ops_events = <<>>
    /\ taken = 0
    /\ connected_at = [c \in Consumers |-> -1]
    /\ received = [c \in Consumers |-> <<>>]
    /\ scan_pc = [s \in Sessions |-> "unused"]
    /\ start_page = [s \in Sessions |-> 1]
    /\ current_page = [s \in Sessions |-> 1]
    /\ iter = [s \in Sessions |-> 0]
    /\ items = [s \in Sessions |-> <<>>]
    /\ item_idx = [s \in Sessions |-> 1]
    /\ fetched = [s \in Sessions |-> <<>>]
    /\ saw_cancel = [s \in Sessions |-> FALSE]
    /\ fast_queue = [id \in Ids |-> 0]
    /\ item_pc = [id \in Ids |-> "idle"]
    /\ ai_pc = [id \in Ids |-> "none"]
    /\ ai_summary = [id \in Ids |-> NoText]
    /\ submits = [id \in Ids |-> 0]
    /\ releases = [id \in Ids |-> 0]
    /\ ai_calls = [id \in Ids |-> 0]
    /\ handled = [id \in Ids |-> 0]
    /\ queued_at_cancel = {}
    /\ matches = 0
    /\ keyed = {}
    /\ SEARCH_PATTERNS = <<>>
    /\ patterns_list = <<>>
    /\ upd_idx = 0
    /\ new_patterns = <<>>
    /\ installed_list = <<>>
    /\ replaces = 0
    /\ match_pc = "idle"
    /\ content_to_check = <<>>
    /\ current_patterns = <<>>
    /\ matched_label = NoLabel
    /\ ai_busy = 0
    /\ noid_queue = 0
    /\ skipped = 0
    /\ gh_pc = "unused"
    /\ gh_start_page = 1
    /\ gh_current_page = 1
    /\ gh_api_url = 0
    /\ gh_issues = 0
    /\ gh_idx = 1
    /\ matches_found_this_run = 0
    /\ gh_done = 0
    /\ gh_events = <<>>
    /\ gh_checked = [p \in 1..(MaxGhPages + 1) |-> 0]
    /\ gh_rate = FALSE
    /\ gh_exit = "none"
    /\ cmds = 0

\* ------------------------------------------------------- route handlers
\* A request that would change nothing (pause while paused, resume while not
\* paused, ...) is a stuttering step and is left out by the guards.
\* scan_source clearing the rate-limit flag as well.
scan_source_ClearsAll(s, page) ==
    /\ scan_pc[s] = "unused"
    /\ \A t \in Sessions : t < s => scan_pc[t] # "unused"
    /\ is_manually_paused' = FALSE
    /\ is_scan_cancelled' = FALSE
    /\ is_paused_due_to_rate_limit' = FALSE
    /\ scan_pc' = [scan_pc EXCEPT ![s] = "queued"]
    /\ start_page' = [start_page EXCEPT ![s] = page]
    /\ current_page' = [current_page EXCEPT ![s] = page]
    /\ UNCHANGED <<matches, keyed, patternVars, ai_busy, skipVars, ghVars, processed_ids_this_session, content_collection,
                   queueVars, streamVars, iter, items, item_idx, fetched,
                   saw_cancel, itemVars, aiVars, cmds>>

\* POST /scan-source with a configured source: the manual-pause and cancel
\* flags are cleared and perform_api_scan is submitted to global_executor.
scan_source(s, page) ==
    /\ scan_pc[s] = "unused"
    /\ \A t \in Sessions : t < s => scan_pc[t] # "unused"
    /\ is_manually_paused' = FALSE
    /\ is_scan_cancelled' = FALSE
    /\ scan_pc' = [scan_pc EXCEPT ![s] = "queued"]
    /\ start_page' = [start_page EXCEPT ![s] = page]
    /\ current_page' = [current_page EXCEPT ![s] = page]
    /\ UNCHANGED <<matches, keyed, patternVars, ai_busy, skipVars, ghVars, is_paused_due_to_rate_limit, processed_ids_this_session, content_collection,
                   queueVars, streamVars, iter, items, item_idx, fetched,
                   saw_cancel, itemVars, aiVars, cmds>>

\* POST /scan-source without source_name or with an unknown one: the flags
\* are cleared before the request is rejected with 400 or 404.
scan_source_rejected ==
    /\ cmds < MaxCmds
    /\ is_manually_paused \/ is_scan_cancelled
    /\ cmds' = cmds + 1
    /\ is_manually_paused' = FALSE
    /\ is_scan_cancelled' = FALSE
    /\ UNCHANGED <<matches, keyed, patternVars, ai_busy, skipVars, ghVars, is_paused_due_to_rate_limit, processed_ids_this_session, content_collection,
                   queueVars, streamVars, scanVars, itemVars, aiVars>>

\* POST /scan-all-sources with a list that names n configured sources: the
\* manual-pause and cancel flags are cleared and perform_api_scan(source, 1)
\* is submitted to global_executor for each of them.
scan_all_sources(n) ==
    LET free == {s \in Sessions : scan_pc[s] = "unused"}
        first == IF free = {} THEN 1 ELSE CHOOSE s \in free : \A t \in free : s <= t
        batch == first..(first + n - 1)
    IN  /\ n >= 1
        /\ batch \subseteq free
        /\ is_manually_paused' = FALSE
        /\ is_scan_cancelled' = FALSE
        /\ scan_pc' = [s \in Sessions |-> IF s \in batch THEN "queued" ELSE scan_pc[s]]
        /\ start_page' = [s \in Sessions |-> IF s \in batch THEN 1 ELSE start_page[s]]
        /\ current_page' = [s \in Sessions |-> IF s \in batch THEN 1 ELSE current_page[s]]
        /\ UNCHANGED <<matches, keyed, patternVars, ai_busy, skipVars, ghVars, is_paused_due_to_rate_limit, processed_ids_this_session, content_collection,
                       queueVars, streamVars, iter, items, item_idx, fetched,
                       saw_cancel, itemVars, aiVars, cmds>>

\* POST /scan-all-sources without a list or with no configured name in it:
\* the flags are cleared before the request is rejected with 400 or 404.
scan_all_sources_rejected ==
    /\ cmds < MaxCmds
    /\ is_manually_paused \/ is_scan_cancelled
    /\ cmds' = cmds + 1
    /\ is_manually_paused' = FALSE
    /\ is_scan_cancelled' = FALSE
    /\ UNCHANGED <<matches, keyed, patternVars, ai_busy, skipVars, ghVars, is_paused_due_to_rate_limit, processed_ids_this_session, content_collection,
                   queueVars, streamVars, scanVars, itemVars, aiVars>>

\* POST /generate-summary whose provider call fails with a throttling error:
\* get_llm_summary sets the rate-limit flag and puts status=rate_limit_paused.
\* The call started when the flags it tests were clear and returns at any
\* later time; a request with any other outcome changes nothing.
generate_summary ==
    /\ cmds < MaxCmds
    /\ cmds' = cmds + 1
    /\ is_paused_due_to_rate_limit' = TRUE
    /\ PutByHandler(StatusEvent("rate_limit_paused", "throttled"))
    /\ UNCHANGED <<is_manually_paused, is_scan_cancelled, processed_ids_this_session,
                   content_collection, streamVars, scanVars, itemVars, aiVars>>

\* POST /pause-scan
pause_scan ==
    /\ cmds < MaxCmds
    /\ ~is_manually_paused
    /\ cmds' = cmds + 1
    /\ is_manually_paused' = TRUE
    /\ UNCHANGED <<matches, keyed, patternVars, ai_busy, skipVars, ghVars, is_scan_cancelled, is_paused_due_to_rate_limit, processed_ids_this_session,
                   content_collection, queueVars, streamVars, scanVars,
                   itemVars, aiVars>>

\* POST /resume-scan
resume_scan ==
    /\ cmds < MaxCmds
    /\ is_manually_paused
    /\ cmds' = cmds + 1
    /\ is_manually_paused' = FALSE
    /\ UNCHANGED <<matches, keyed, patternVars, ai_busy, skipVars, ghVars, is_scan_cancelled, is_paused_due_to_rate_limit, processed_ids_this_session,
                   content_collection, queueVars, streamVars, scanVars,
                   itemVars, aiVars>>

\* POST /cancel-scan
cancel_scan ==
    /\ cmds < MaxCmds
    /\ ~is_scan_cancelled \/ is_manually_paused
    /\ cmds' = cmds + 1
    /\ is_scan_cancelled' = TRUE
    /\ is_manually_paused' = FALSE
    /\ queued_at_cancel' = queued_at_cancel \cup {id \in Ids : ai_pc[id] = "queued"}
    /\ UNCHANGED <<matches, keyed, patternVars, ai_busy, skipVars, ghVars, is_paused_due_to_rate_limit, processed_ids_this_session,
                   content_collection, queueVars, streamVars, scanVars,
                   itemVars, ai_pc, ai_summary, submits, releases, ai_calls>>

\* POST /resume-operations
resume_operations ==
    /\ cmds < MaxCmds
    /\ is_paused_due_to_rate_limit
    /\ cmds' = cmds + 1
    /\ is_paused_due_to_rate_limit' = FALSE
    /\ PutByHandler(StatusEvent("idle", "resumed"))
    /\ UNCHANGED <<matches, keyed, patternVars, ai_busy, skipVars, ghVars, is_manually_paused, is_scan_cancelled, processed_ids_this_session,
                   content_collection, streamVars, scanVars, itemVars, aiVars>>

\* ------------------------------------------------------ perform_api_scan
\* End of one pass of `for i in range(PAGES_PER_SCAN)`: the next pass starts
\* at the cancel check, or the loop is exhausted.
NextPass(n) == IF n + 1 < PAGES_PER_SCAN THEN "chk_cancel" ELSE "post"

\* ScanStart without the first status=scanning event.
ScanStart_Silent(s) ==
    /\ scan_pc[s] = "queued"
    /\ scan_pc' = [scan_pc EXCEPT ![s] = "chk_url"]
    /\ UNCHANGED <<matches, keyed, patternVars, ai_busy, skipVars, ghVars, flagVars, processed_ids_this_session, content_collection, streamVars,
                   queueVars, start_page, current_page, iter, items, item_idx, fetched,
                   saw_cancel, itemVars, aiVars, cmds>>

\* Entry: the first status=scanning event.
ScanStart(s) ==
    /\ scan_pc[s] = "queued"
    /\ PutByScan(s, StatusEvent("scanning", "starting"))
    /\ scan_pc' = [scan_pc EXCEPT ![s] = "chk_url"]
    /\ UNCHANGED <<matches, keyed, patternVars, ai_busy, skipVars, ghVars, flagVars, processed_ids_this_session, content_collection, streamVars,
                   start_page, current_page, iter, items, item_idx, fetched,
                   saw_cancel, itemVars, aiVars, cmds>>

\* ScanCheckUrl that reports the missing URL template and enters the loop.
ScanCheckUrl_GoesOn(s, has_api_url) ==
    /\ scan_pc[s] = "chk_url"
    /\ IF has_api_url
         THEN UNCHANGED queueVars
         ELSE PutByScan(s, StatusEvent("error", "missing_api_url"))
    /\ scan_pc' = [scan_pc EXCEPT ![s] = "chk_cancel"]
    /\ UNCHANGED <<matches, keyed, patternVars, ai_busy, skipVars, ghVars, flagVars, processed_ids_this_session, content_collection, streamVars,
                   start_page, current_page, iter, items, item_idx, fetched,
                   saw_cancel, itemVars, aiVars, cmds>>

\* `api_url_template = source_config.get('apiUrl')`: a config without it puts
\* status=error and returns, else the loop is entered.
ScanCheckUrl(s, has_api_url) ==
    /\ scan_pc[s] = "chk_url"
    /\ IF has_api_url
         THEN /\ scan_pc' = [scan_pc EXCEPT ![s] = "chk_cancel"]
              /\ UNCHANGED queueVars
         ELSE /\ PutByScan(s, StatusEvent("error", "missing_api_url"))
              /\ scan_pc' = [scan_pc EXCEPT ![s] = "done"]
    /\ UNCHANGED <<matches, keyed, patternVars, ai_busy, skipVars, ghVars, flagVars, processed_ids_this_session, content_collection, streamVars,
                   start_page, current_page, iter, items, item_idx, fetched,
                   saw_cancel, itemVars, aiVars, cmds>>

\* `if is_scan_cancelled.is_set(): break` at the top of a pass.
ScanCheckCancel(s) ==
    /\ scan_pc[s] = "chk_cancel"
    /\ IF is_scan_cancelled
         THEN /\ scan_pc' = [scan_pc EXCEPT ![s] = "post"]
              /\ saw_cancel' = [saw_cancel EXCEPT ![s] = TRUE]
         ELSE /\ scan_pc' = [scan_pc EXCEPT ![s] = "chk_pause"]
              /\ UNCHANGED saw_cancel
    /\ UNCHANGED <<matches, keyed, patternVars, ai_busy, skipVars, ghVars, flagVars, processed_ids_this_session, content_collection, queueVars,
                   streamVars, start_page, current_page, iter, items, item_idx,
                   fetched, itemVars, aiVars, cmds>>

\* `if is_manually_paused.is_set():` puts status=manually_paused.
ScanCheckPause(s) ==
    /\ scan_pc[s] = "chk_pause"
    /\ IF is_manually_paused
         THEN /\ PutByScan(s, StatusEvent("manually_paused", "paused"))
              /\ scan_pc' = [scan_pc EXCEPT ![s] = "wait"]
         ELSE /\ scan_pc' = [scan_pc EXCEPT ![s] = "chk_rate"]
              /\ UNCHANGED queueVars
    /\ UNCHANGED <<matches, keyed, patternVars, ai_busy, skipVars, ghVars, flagVars, processed_ids_this_session, content_collection, streamVars,
                   start_page, current_page, iter, items, item_idx, fetched,
                   saw_cancel, itemVars, aiVars, cmds>>

\* ScanWait with the pause also taking a page number.
ScanWait_SkipsPage(s) ==
    /\ scan_pc[s] = "wait"
    /\ is_manually_paused
    /\ iter' = [iter EXCEPT ![s] = iter[s] + 1]
    /\ current_page' = [current_page EXCEPT ![s] = current_page[s] + 1]
    /\ scan_pc' = [scan_pc EXCEPT ![s] = NextPass(iter[s])]
    /\ UNCHANGED <<matches, keyed, patternVars, ai_busy, skipVars, ghVars, flagVars, processed_ids_this_session, content_collection, queueVars,
                   streamVars, start_page, items, item_idx, fetched,
                   saw_cancel, itemVars, aiVars, cmds>>

\* `is_manually_paused.wait(); continue`: threading.Event.wait() returns as
\* soon as the flag is set, and `continue` takes the next value of i.
ScanWait(s) ==
    /\ scan_pc[s] = "wait"
    /\ is_manually_paused
    /\ iter' = [iter EXCEPT ![s] = iter[s] + 1]
    /\ scan_pc' = [scan_pc EXCEPT ![s] = NextPass(iter[s])]
    /\ UNCHANGED <<matches, keyed, patternVars, ai_busy, skipVars, ghVars, flagVars, processed_ids_this_session, content_collection, queueVars,
                   streamVars, start_page, current_page, items, item_idx, fetched,
                   saw_cancel, itemVars, aiVars, cmds>>

\* ScanCheckRate without the test of the rate-limit flag.
ScanCheckRate_NoCheck(s) ==
    /\ scan_pc[s] = "chk_rate"
    /\ PutByScan(s, StatusEvent("scanning", "fetching"))
    /\ fetched' = [fetched EXCEPT ![s] = Append(fetched[s], current_page[s])]
    /\ scan_pc' = [scan_pc EXCEPT ![s] = "fetching"]
    /\ UNCHANGED <<flagVars, processed_ids_this_session, content_collection, streamVars,
                   start_page, current_page, iter, items, item_idx, saw_cancel,
                   itemVars, aiVars, cmds>>

\* `if is_paused_due_to_rate_limit.is_set(): return`, else the request for
\* current_page is sent (status=scanning "Fetching page" is put first).
ScanCheckRate(s) ==
    /\ scan_pc[s] = "chk_rate"
    /\ IF is_paused_due_to_rate_limit
         THEN /\ scan_pc' = [scan_pc EXCEPT ![s] = "done"]
              /\ UNCHANGED <<queueVars, fetched>>
         ELSE /\ PutByScan(s, StatusEvent("scanning", "fetching"))
              /\ fetched' = [fetched EXCEPT ![s] = Append(fetched[s], current_page[s])]
              /\ scan_pc' = [scan_pc EXCEPT ![s] = "fetching"]
    /\ UNCHANGED <<matches, keyed, patternVars, ai_busy, skipVars, ghVars, flagVars, processed_ids_this_session, content_collection, streamVars,
                   start_page, current_page, iter, items, item_idx, saw_cancel,
                   itemVars, aiVars, cmds>>

\* ScanFetch that goes on to the next pass after a failed request.
ScanFetch_Retries(s, outcome) ==
    /\ scan_pc[s] = "fetching"
    /\ IF outcome \in {"ok", "not_a_list"}
         THEN LET its == IF outcome = "ok" THEN PageItems(current_page[s]) ELSE <<>> IN
              IF its = <<>>
                THEN /\ PutByScan(s, StatusEvent("idle", "complete"))
                     /\ scan_pc' = [scan_pc EXCEPT ![s] = "done"]
                     /\ UNCHANGED <<items, item_idx, iter>>
                ELSE /\ items' = [items EXCEPT ![s] = its]
                     /\ item_idx' = [item_idx EXCEPT ![s] = 1]
                     /\ scan_pc' = [scan_pc EXCEPT ![s] = "items"]
                     /\ UNCHANGED <<queueVars, iter>>
         ELSE /\ PutByScan(s, StatusEvent("error", outcome))
              /\ iter' = [iter EXCEPT ![s] = iter[s] + 1]
              /\ scan_pc' = [scan_pc EXCEPT ![s] = NextPass(iter[s])]
              /\ UNCHANGED <<items, item_idx>>
    /\ UNCHANGED <<matches, keyed, patternVars, ai_busy, skipVars, ghVars, flagVars, processed_ids_this_session, content_collection, streamVars,
                   start_page, current_page, fetched, saw_cancel,
                   itemVars, aiVars, cmds>>

\* ScanFetch that takes an empty item list as a page without matches.
ScanFetch_EmptyGoesOn(s, outcome) ==
    /\ scan_pc[s] = "fetching"
    /\ IF outcome \in {"ok", "not_a_list"}
         THEN LET its == IF outcome = "ok" THEN PageItems(current_page[s]) ELSE <<>> IN
              IF its = <<>>
                THEN /\ scan_pc' = [scan_pc EXCEPT ![s] = "after_items"]
                     /\ UNCHANGED <<items, item_idx, queueVars>>
                ELSE /\ items' = [items EXCEPT ![s] = its]
                     /\ item_idx' = [item_idx EXCEPT ![s] = 1]
                     /\ scan_pc' = [scan_pc EXCEPT ![s] = "items"]
                     /\ UNCHANGED queueVars
         ELSE /\ PutByScan(s, StatusEvent("error", outcome))
              /\ scan_pc' = [scan_pc EXCEPT ![s] = "done"]
              /\ UNCHANGED <<items, item_idx>>
    /\ UNCHANGED <<matches, keyed, patternVars, ai_busy, skipVars, ghVars, flagVars, processed_ids_this_session, content_collection, streamVars,
                   start_page, current_page, iter, fetched, saw_cancel,
                   itemVars, aiVars, cmds>>

\* requests.get returns: a request failure (network error, timeout, non-2xx
\* status) or an undecodable body puts status=error; an item list that is
\* empty or not a list puts status=idle; otherwise the item loop starts.
ScanFetch(s, outcome) ==
    /\ scan_pc[s] = "fetching"
    /\ IF outcome \in {"ok", "not_a_list"}
         THEN LET its == IF outcome = "ok" THEN PageItems(current_page[s]) ELSE <<>> IN
              IF its = <<>>
                THEN /\ PutByScan(s, StatusEvent("idle", "complete"))
                     /\ scan_pc' = [scan_pc EXCEPT ![s] = "done"]
                     /\ UNCHANGED <<items, item_idx>>
                ELSE /\ items' = [items EXCEPT ![s] = its]
                     /\ item_idx' = [item_idx EXCEPT ![s] = 1]
                     /\ scan_pc' = [scan_pc EXCEPT ![s] = "items"]
                     /\ UNCHANGED queueVars
         ELSE /\ PutByScan(s, StatusEvent("error", outcome))
              /\ scan_pc' = [scan_pc EXCEPT ![s] = "done"]
              /\ UNCHANGED <<items, item_idx>>
    /\ UNCHANGED <<matches, keyed, patternVars, ai_busy, skipVars, ghVars, flagVars, processed_ids_this_session, content_collection, streamVars,
                   start_page, current_page, iter, fetched, saw_cancel,
                   itemVars, aiVars, cmds>>

\* ScanItem with the scanner waiting for the enrichment of what it has
\* submitted before it takes the next item.
ScanItem_WaitsForEnrichment(s) ==
    /\ scan_pc[s] = "items"
    /\ \A id \in Ids : fast_queue[id] = 0 /\ item_pc[id] = "idle" /\ ai_pc[id] = "none"
    /\ IF is_scan_cancelled
         THEN /\ saw_cancel' = [saw_cancel EXCEPT ![s] = TRUE]
              /\ scan_pc' = [scan_pc EXCEPT ![s] = "after_items"]
              /\ UNCHANGED <<fast_queue, item_idx>>
         ELSE LET id == items[s][item_idx[s]] IN
              /\ fast_queue' = [fast_queue EXCEPT ![id] = fast_queue[id] + 1]
              /\ item_idx' = [item_idx EXCEPT ![s] = item_idx[s] + 1]
              /\ scan_pc' = [scan_pc EXCEPT ![s] =
                     IF item_idx[s] + 1 > Len(items[s]) THEN "after_items" ELSE "items"]
              /\ UNCHANGED saw_cancel
    /\ UNCHANGED <<matches, keyed, patternVars, ai_busy, skipVars, ghVars, flagVars, processed_ids_this_session, content_collection, queueVars,
                   streamVars, start_page, current_page, iter, items, fetched,
                   item_pc, handled, aiVars, cmds>>

\* One pass of `for item in items`: break on cancel, else the matching item
\* is submitted to global_executor.
ScanItem(s) ==
    /\ scan_pc[s] = "items"
    /\ IF is_scan_cancelled
         THEN /\ saw_cancel' = [saw_cancel EXCEPT ![s] = TRUE]
              /\ scan_pc' = [scan_pc EXCEPT ![s] = "after_items"]
              /\ UNCHANGED <<fast_queue, item_idx>>
         ELSE LET id == items[s][item_idx[s]] IN
              /\ fast_queue' = [fast_queue EXCEPT ![id] = fast_queue[id] + 1]
              /\ item_idx' = [item_idx EXCEPT ![s] = item_idx[s] + 1]
              /\ scan_pc' = [scan_pc EXCEPT ![s] =
                     IF item_idx[s] + 1 > Len(items[s]) THEN "after_items" ELSE "items"]
              /\ UNCHANGED saw_cancel
    /\ UNCHANGED <<matches, keyed, patternVars, ai_busy, skipVars, ghVars, flagVars, processed_ids_this_session, content_collection, queueVars,
                   streamVars, start_page, current_page, iter, items, fetched,
                   item_pc, handled, aiVars, cmds>>

\* `if is_scan_cancelled.is_set(): break` after the item loop, else
\* `current_page += 1` and the next pass.
ScanAfterItems(s) ==
    /\ scan_pc[s] = "after_items"
    /\ IF is_scan_cancelled
         THEN /\ saw_cancel' = [saw_cancel EXCEPT ![s] = TRUE]
              /\ scan_pc' = [scan_pc EXCEPT ![s] = "post"]
              /\ UNCHANGED <<current_page, iter>>
         ELSE /\ current_page' = [current_page EXCEPT ![s] = current_page[s] + 1]
              /\ iter' = [iter EXCEPT ![s] = iter[s] + 1]
              /\ scan_pc' = [scan_pc EXCEPT ![s] = NextPass(iter[s])]
              /\ UNCHANGED saw_cancel
    /\ UNCHANGED <<matches, keyed, patternVars, ai_busy, skipVars, ghVars, flagVars, processed_ids_this_session, content_collection, queueVars,
                   streamVars, start_page, items, item_idx, fetched,
                   itemVars, aiVars, cmds>>

\* After the loop: status=idle (cancelled) if the cancel flag is set now,
\* else status=scan_paused with next_page = current_page.
ScanPost(s) ==
    /\ scan_pc[s] = "post"
    /\ PutByScan(s, IF is_scan_cancelled THEN StatusEvent("idle", "cancelled")
                     ELSE ScanPausedEvent(current_page[s]))
    /\ scan_pc' = [scan_pc EXCEPT ![s] = "done"]
    /\ UNCHANGED <<matches, keyed, patternVars, ai_busy, skipVars, ghVars, flagVars, processed_ids_this_session, content_collection, streamVars,
                   start_page, current_page, iter, items, item_idx, fetched,
                   saw_cancel, itemVars, aiVars, cmds>>

\* CacheHit with the marker test inverted.
CacheHit_Inverted(doc) ==
    /\ doc.present
    /\ doc.ai_summary # NoText
    /\ startswith(doc.ai_summary, FailureMarkers)

\* --------------------------------------------- process_and_queue_api_item
\* content_collection.find_one + the cache test on the stored summary.
CacheHit(doc) ==
    /\ doc.present
    /\ doc.ai_summary # NoText
    /\ ~startswith(doc.ai_summary, FailureMarkers)

\* ItemGate with the pending api_item of the fresh path left out.
ItemGate_NoPending(id) ==
    /\ fast_queue[id] > 0
    /\ fast_queue' = [fast_queue EXCEPT ![id] = fast_queue[id] - 1]
    /\ handled' = [handled EXCEPT ![id] = handled[id] + 1]
    /\ IF id \in processed_ids_this_session
         THEN UNCHANGED <<processed_ids_this_session, queueVars, item_pc>>
         ELSE /\ processed_ids_this_session' = processed_ids_this_session \cup {id}
              /\ IF CacheHit(content_collection[id])
                   THEN /\ PutByItem(id, ApiItemEvent(id, "complete", "db"))
                        /\ item_pc' = [item_pc EXCEPT ![id] = "cached_summary"]
                   ELSE /\ UNCHANGED queueVars
                        /\ item_pc' = [item_pc EXCEPT ![id] = "submit"]
    /\ UNCHANGED <<matches, keyed, patternVars, ai_busy, skipVars, ghVars, flagVars, content_collection, streamVars, scanVars, aiVars, cmds>>

\* ItemGate without the membership test of the dedup gate.
ItemGate_NoDedup(id) ==
    /\ fast_queue[id] > 0
    /\ item_pc[id] = "idle"
    /\ fast_queue' = [fast_queue EXCEPT ![id] = fast_queue[id] - 1]
    /\ handled' = [handled EXCEPT ![id] = handled[id] + 1]
    /\ processed_ids_this_session' = processed_ids_this_session \cup {id}
    /\ IF CacheHit(content_collection[id])
         THEN /\ PutByItem(id, ApiItemEvent(id, "complete", "db"))
              /\ item_pc' = [item_pc EXCEPT ![id] = "cached_summary"]
         ELSE /\ PutByItem(id, ApiItemEvent(id, "pending", "item"))
              /\ item_pc' = [item_pc EXCEPT ![id] = "submit"]
    /\ UNCHANGED <<matches, keyed, patternVars, ai_busy, skipVars, ghVars, flagVars, content_collection, streamVars, scanVars, aiVars, cmds>>

\* The dedup gate under processed_ids_lock, the cache lookup and the first
\* put: a seen id returns at once; a cached id puts api_item (complete); any
\* other id puts api_item (pending).
ItemGate(id) ==
    /\ fast_queue[id] > 0
    /\ fast_queue' = [fast_queue EXCEPT ![id] = fast_queue[id] - 1]
    /\ handled' = [handled EXCEPT ![id] = handled[id] + 1]
    /\ IF id \in processed_ids_this_session
         THEN UNCHANGED <<processed_ids_this_session, queueVars, item_pc>>
         ELSE /\ processed_ids_this_session' = processed_ids_this_session \cup {id}
              /\ IF CacheHit(content_collection[id])
                   THEN /\ PutByItem(id, ApiItemEvent(id, "complete", "db"))
                        /\ item_pc' = [item_pc EXCEPT ![id] = "cached_summary"]
                   ELSE /\ PutByItem(id, ApiItemEvent(id, "pending", "item"))
                        /\ item_pc' = [item_pc EXCEPT ![id] = "submit"]
    /\ UNCHANGED <<matches, keyed, patternVars, ai_busy, skipVars, ghVars, flagVars, content_collection, streamVars, scanVars, aiVars, cmds>>

\* Cache path: the summary_update carrying the stored summary.
ItemReplay(id) ==
    /\ item_pc[id] = "cached_summary"
    /\ PutByItem(id, SummaryEvent(id, content_collection[id].ai_summary, "db"))
    /\ item_pc' = [item_pc EXCEPT ![id] = "idle"]
    /\ UNCHANGED <<matches, keyed, patternVars, ai_busy, skipVars, ghVars, flagVars, processed_ids_this_session, content_collection, streamVars,
                   scanVars, fast_queue, handled, aiVars, cmds>>

\* Fresh path: ai_executor.submit(generate_summary_and_update).
ItemSubmit(id) ==
    /\ item_pc[id] = "submit"
    /\ ai_pc' = [ai_pc EXCEPT ![id] = "queued"]
    /\ submits' = [submits EXCEPT ![id] = submits[id] + 1]
    /\ item_pc' = [item_pc EXCEPT ![id] = "idle"]
    /\ UNCHANGED <<matches, keyed, patternVars, ai_busy, skipVars, ghVars, flagVars, processed_ids_this_session, content_collection, queueVars,
                   streamVars, scanVars, fast_queue, handled, ai_summary, releases, queued_at_cancel,
                   ai_calls, cmds>>

\* -------------------------------------------- generate_summary_and_update
\* ai_executor = ThreadPoolExecutor(max_workers=MAX_AI_WORKERS): a submitted
\* task waits in the executor's queue until one of the workers is free.
Running(id) == ai_pc[id] \notin {"none", "queued"}
WorkersInUse == ai_busy + Cardinality({id \in Ids : Running(id)})

\* AiStart that releases the id under pause or cancel and goes on to
\* get_llm_summary all the same.
AiStart_ReleasesAndRuns(id) ==
    /\ ai_pc[id] = "queued"
    /\ WorkersInUse < MAX_AI_WORKERS
    /\ IF is_manually_paused \/ is_scan_cancelled
         THEN /\ processed_ids_this_session' = processed_ids_this_session \ {id}
              /\ releases' = [releases EXCEPT ![id] = releases[id] + 1]
              /\ queued_at_cancel' = queued_at_cancel \ {id}
         ELSE UNCHANGED <<processed_ids_this_session, releases, queued_at_cancel>>
    /\ ai_pc' = [ai_pc EXCEPT ![id] = "llm_pause"]
    /\ UNCHANGED <<matches, keyed, patternVars, ai_busy, skipVars, ghVars, flagVars, content_collection, queueVars, streamVars,
                   scanVars, itemVars, ai_summary, submits, ai_calls, cmds>>

\* AiStart whose abort also puts a summary_update for the item.
AiStart_AbortAnnounces(id) ==
    /\ ai_pc[id] = "queued"
    /\ WorkersInUse < MAX_AI_WORKERS
    /\ IF is_manually_paused \/ is_scan_cancelled
         THEN /\ processed_ids_this_session' = processed_ids_this_session \ {id}
              /\ releases' = [releases EXCEPT ![id] = releases[id] + 1]
              /\ queued_at_cancel' = queued_at_cancel \ {id}
              /\ ai_pc' = [ai_pc EXCEPT ![id] = "none"]
              /\ PutByItem(id, SummaryEvent(id, TextManualPause, "llm"))
         ELSE /\ ai_pc' = [ai_pc EXCEPT ![id] = "llm_pause"]
              /\ UNCHANGED <<processed_ids_this_session, releases, queued_at_cancel>>
              /\ UNCHANGED <<matches, keyed, patternVars, ai_busy, skipVars, ghVars, queueVars>>
    /\ UNCHANGED <<flagVars, content_collection, streamVars,
                   scanVars, itemVars, ai_summary, submits, ai_calls, cmds>>

\* A slow-pool worker starts the task: with manual pause or cancel set it
\* discards the id and returns, else it goes on to get_llm_summary.
AiStart(id) ==
    /\ ai_pc[id] = "queued"
    /\ WorkersInUse < MAX_AI_WORKERS
    /\ IF is_manually_paused \/ is_scan_cancelled
         THEN /\ processed_ids_this_session' = processed_ids_this_session \ {id}
              /\ releases' = [releases EXCEPT ![id] = releases[id] + 1]
              /\ queued_at_cancel' = queued_at_cancel \ {id}
              /\ ai_pc' = [ai_pc EXCEPT ![id] = "none"]
         ELSE /\ ai_pc' = [ai_pc EXCEPT ![id] = "llm_pause"]
              /\ UNCHANGED <<processed_ids_this_session, releases, queued_at_cancel>>
    /\ UNCHANGED <<matches, keyed, patternVars, ai_busy, skipVars, ghVars, flagVars, content_collection, queueVars, streamVars,
                   scanVars, itemVars, ai_summary, submits, ai_calls, cmds>>

\* get_llm_summary: `if is_manually_paused.is_set(): return "[Status: Paused..."`
LlmCheckPause(id) ==
    /\ ai_pc[id] = "llm_pause"
    /\ IF is_manually_paused
         THEN /\ ai_summary' = [ai_summary EXCEPT ![id] = TextManualPause]
              /\ ai_pc' = [ai_pc EXCEPT ![id] = "finish"]
         ELSE /\ ai_pc' = [ai_pc EXCEPT ![id] = "llm_rate"]
              /\ UNCHANGED ai_summary
    /\ UNCHANGED <<matches, keyed, patternVars, ai_busy, skipVars, ghVars, queued_at_cancel, flagVars, processed_ids_this_session, content_collection, queueVars,
                   streamVars, scanVars, itemVars, submits, releases, ai_calls, cmds>>

\* LlmCheckRate without the test of the rate-limit flag.
LlmCheckRate_NoCheck(id) ==
    /\ ai_pc[id] = "llm_rate"
    /\ ai_calls' = [ai_calls EXCEPT ![id] = ai_calls[id] + 1]
    /\ ai_pc' = [ai_pc EXCEPT ![id] = "calling"]
    /\ UNCHANGED <<matches, keyed, patternVars, ai_busy, skipVars, ghVars, queued_at_cancel, flagVars, processed_ids_this_session,
                   content_collection, queueVars, streamVars, scanVars, itemVars,
                   ai_summary, submits, releases, cmds>>

\* get_llm_summary: `if is_paused_due_to_rate_limit.is_set(): return "[Status: ..."`,
\* else the provider call starts.
LlmCheckRate(id) ==
    /\ ai_pc[id] = "llm_rate"
    /\ IF is_paused_due_to_rate_limit
         THEN /\ ai_summary' = [ai_summary EXCEPT ![id] = TextRateLimitBlocked]
              /\ ai_pc' = [ai_pc EXCEPT ![id] = "finish"]
              /\ UNCHANGED ai_calls
         ELSE /\ ai_calls' = [ai_calls EXCEPT ![id] = ai_calls[id] + 1]
              /\ ai_pc' = [ai_pc EXCEPT ![id] = "calling"]
              /\ UNCHANGED ai_summary
    /\ UNCHANGED <<matches, keyed, patternVars, ai_busy, skipVars, ghVars, queued_at_cancel, flagVars, processed_ids_this_session, content_collection, queueVars,
                   streamVars, scanVars, itemVars, submits, releases, cmds>>

\* The provider call returns: a reply, a throttling failure (sets the
\* rate-limit flag and puts status=rate_limit_paused) or another failure.
LlmReturn(id, outcome) ==
    /\ ai_pc[id] = "calling"
    /\ ai_pc' = [ai_pc EXCEPT ![id] = "finish"]
    /\ IF outcome = "rate_limit"
         THEN /\ is_paused_due_to_rate_limit' = TRUE
              /\ PutByItem(id, StatusEvent("rate_limit_paused", "throttled"))
              /\ ai_summary' = [ai_summary EXCEPT ![id] = TextRateLimitError]
         ELSE /\ ai_summary' = [ai_summary EXCEPT ![id] =
                     IF outcome = "reply" THEN TextReply ELSE TextLLMError]
              /\ UNCHANGED <<is_paused_due_to_rate_limit, queueVars>>
    /\ UNCHANGED <<matches, keyed, patternVars, ai_busy, skipVars, ghVars, queued_at_cancel, is_manually_paused, is_scan_cancelled, processed_ids_this_session,
                   content_collection, streamVars, scanVars, itemVars, submits,
                   releases, ai_calls, cmds>>

\* AiFinish with the upsert done whatever the summary is.
AiFinish_AlwaysUpserts(id) ==
    /\ ai_pc[id] = "finish"
    /\ content_collection' = [content_collection EXCEPT ![id] = Doc(ai_summary[id])]
    /\ PutByItem(id, SummaryEvent(id, ai_summary[id], "llm"))
    /\ ai_pc' = [ai_pc EXCEPT ![id] = "none"]
    /\ UNCHANGED <<queued_at_cancel, flagVars, processed_ids_this_session, streamVars, scanVars,
                   itemVars, ai_summary, submits, releases, ai_calls, cmds>>

\* AiFinish with summary_update put for a successful summary only.
AiFinish_Silent(id) ==
    /\ ai_pc[id] = "finish"
    /\ IF ~startswith(ai_summary[id], FailureMarkers)
         THEN /\ content_collection' = [content_collection EXCEPT ![id] = Doc(ai_summary[id])]
              /\ PutByItem(id, SummaryEvent(id, ai_summary[id], "llm"))
         ELSE UNCHANGED <<content_collection, queueVars>>
    /\ ai_pc' = [ai_pc EXCEPT ![id] = "none"]
    /\ UNCHANGED <<matches, keyed, patternVars, ai_busy, skipVars, ghVars, queued_at_cancel, flagVars, processed_ids_this_session,
                   streamVars, scanVars, itemVars, ai_summary, submits, releases, ai_calls, cmds>>

\* AiFinish with the id discarded when the summary is a failure text.
AiFinish_ReleasesOnFailure(id) ==
    /\ ai_pc[id] = "finish"
    /\ LET summary_successful == ~startswith(ai_summary[id], FailureMarkers) IN
       /\ content_collection' =
              IF summary_successful
                THEN [content_collection EXCEPT ![id] = Doc(ai_summary[id])]
                ELSE content_collection
       /\ processed_ids_this_session' =
              IF summary_successful
                THEN processed_ids_this_session
                ELSE processed_ids_this_session \ {id}
    /\ PutByItem(id, SummaryEvent(id, ai_summary[id], "llm"))
    /\ ai_pc' = [ai_pc EXCEPT ![id] = "none"]
    /\ UNCHANGED <<queued_at_cancel, flagVars, streamVars, scanVars,
                   itemVars, ai_summary, submits, releases, ai_calls, cmds>>

\* AiFinish that drops the result when a flag was set during the call.
AiFinish_HonoursFlags(id) ==
    /\ ai_pc[id] = "finish"
    /\ IF is_manually_paused \/ is_scan_cancelled \/ is_paused_due_to_rate_limit
         THEN UNCHANGED <<matches, keyed, patternVars, ai_busy, skipVars, ghVars, content_collection, queueVars>>
         ELSE /\ content_collection' =
                     IF ~startswith(ai_summary[id], FailureMarkers)
                       THEN [content_collection EXCEPT ![id] = Doc(ai_summary[id])]
                       ELSE content_collection
              /\ PutByItem(id, SummaryEvent(id, ai_summary[id], "llm"))
    /\ ai_pc' = [ai_pc EXCEPT ![id] = "none"]
    /\ UNCHANGED <<queued_at_cancel, flagVars, processed_ids_this_session, streamVars, scanVars,
                   itemVars, ai_summary, submits, releases, ai_calls, cmds>>

\* After get_llm_summary: the record is upserted if the summary counts as
\* successful, then summary_update is put.
AiFinish(id) ==
    /\ ai_pc[id] = "finish"
    /\ LET summary_successful == ~startswith(ai_summary[id], FailureMarkers) IN
       content_collection' =
           IF summary_successful
             THEN [content_collection EXCEPT ![id] = Doc(ai_summary[id])]
             ELSE content_collection
    /\ PutByItem(id, SummaryEvent(id, ai_summary[id], "llm"))
    /\ ai_pc' = [ai_pc EXCEPT ![id] = "none"]
    /\ UNCHANGED <<matches, keyed, patternVars, ai_busy, skipVars, ghVars, queued_at_cancel, flagVars, processed_ids_this_session, streamVars, scanVars,
                   itemVars, ai_summary, submits, releases, ai_calls, cmds>>

\* ------------------------------------------------------ pattern registry
\* A rule of a POST /patterns body: its label may be missing, and its
\* pattern is a regex source, a text that does not compile ("(") or a JSON
\* value that is not a string.
Labels == {"a", "b"}
NoKey == "(missing)"
NotAString == "null"
RegexSources == {"x", "y", "("}
Rules == [label : Labels \cup {NoKey}, pattern : RegexSources \cup {NotAString}]
RuleLists == UNION {[1..n -> Rules] : n \in 0..MaxRules}

\* The contents an item can have: texts over the characters x and y.
Contents == {<<"x">>, <<"y">>, <<"x", "y">>}

\* compiled.search(content): the one-character regex finds its character.
search(pattern, content) == \E i \in 1..Len(content) : content[i] = pattern

\* What `new_patterns[item['label']] = re.compile(item['pattern'])` raises:
\* the right-hand side is evaluated first, then the subscript target.
raises(item) ==
    IF item.pattern = NotAString THEN "TypeError"
    ELSE IF item.pattern = "(" THEN "re.error"
    ELSE IF item.label = NoKey THEN "KeyError"
    ELSE "none"

\* dict.__setitem__: a new key goes last, an old key keeps its place.
setitem(d, label, pattern) ==
    IF \E i \in 1..Len(d) : d[i].label = label
      THEN [i \in 1..Len(d) |->
               IF d[i].label = label THEN [label |-> label, pattern |-> pattern] ELSE d[i]]
      ELSE Append(d, [label |-> label, pattern |-> pattern])

\* One pass of the for loop of update_search_patterns on the dict d.
install(d, item) ==
    IF raises(item) = "none" THEN setitem(d, item.label, item.pattern) ELSE d

\* The dict a whole call of update_search_patterns builds from its argument.
RECURSIVE Installed(_)
Installed(list) ==
    IF list = <<>> THEN <<>>
    ELSE install(Installed(SubSeq(list, 1, Len(list) - 1)), list[Len(list)])

\* `for label, pattern in current_patterns.items(): if pattern.search(...)`
RECURSIVE first_match(_, _)
first_match(d, content) ==
    IF d = <<>> THEN NoLabel
    ELSE IF search(d[1].pattern, content) THEN d[1].label
    ELSE first_match(Tail(d), content)

\* POST /patterns (or the load at start-up) calls update_search_patterns.
manage_patterns(new_patterns_list) ==
    /\ upd_idx = 0
    /\ replaces < MaxReplaces
    /\ replaces' = replaces + 1
    /\ patterns_list' = new_patterns_list
    /\ new_patterns' = <<>>
    /\ upd_idx' = 1
    /\ UNCHANGED <<SEARCH_PATTERNS, installed_list, match_pc, content_to_check,
                   current_patterns, matched_label>>
    /\ UNCHANGED <<flagVars, processed_ids_this_session, content_collection, queueVars,
                   streamVars, scanVars, itemVars, aiVars, matches, keyed, ai_busy, skipVars, ghVars, cmds>>

\* UpdateRule with the rules written into SEARCH_PATTERNS as they are read.
UpdateRule_InPlace ==
    /\ upd_idx \in 1..Len(patterns_list)
    /\ LET item == patterns_list[upd_idx] IN
       IF raises(item) \in {"none", "re.error", "KeyError"}
         THEN /\ new_patterns' = install(new_patterns, item)
              /\ SEARCH_PATTERNS' = install(new_patterns, item)
              /\ upd_idx' = upd_idx + 1
         ELSE /\ upd_idx' = 0
              /\ UNCHANGED <<new_patterns, SEARCH_PATTERNS>>
    /\ UNCHANGED <<patterns_list, installed_list, replaces, match_pc,
                   content_to_check, current_patterns, matched_label>>
    /\ UNCHANGED <<flagVars, processed_ids_this_session, content_collection, queueVars,
                   streamVars, scanVars, itemVars, aiVars, matches, keyed, ai_busy, skipVars, ghVars, cmds>>

\* One pass of `for item in patterns_list`: the rule is compiled and stored
\* in new_patterns; re.error and KeyError are caught and the rule skipped;
\* any other exception leaves update_search_patterns.
UpdateRule ==
    /\ upd_idx \in 1..Len(patterns_list)
    /\ LET item == patterns_list[upd_idx] IN
       IF raises(item) \in {"none", "re.error", "KeyError"}
         THEN /\ new_patterns' = install(new_patterns, item)
              /\ upd_idx' = upd_idx + 1
         ELSE /\ upd_idx' = 0
              /\ UNCHANGED new_patterns
    /\ UNCHANGED <<SEARCH_PATTERNS, patterns_list, installed_list, replaces, match_pc,
                   content_to_check, current_patterns, matched_label>>
    /\ UNCHANGED <<flagVars, processed_ids_this_session, content_collection, queueVars,
                   streamVars, scanVars, itemVars, aiVars, matches, keyed, ai_busy, skipVars, ghVars, cmds>>

\* `with patterns_lock: SEARCH_PATTERNS = new_patterns`
UpdateSwap ==
    /\ upd_idx = Len(patterns_list) + 1
    /\ SEARCH_PATTERNS' = new_patterns
    /\ installed_list' = patterns_list
    /\ upd_idx' = 0
    /\ UNCHANGED <<patterns_list, new_patterns, replaces, match_pc, content_to_check,
                   current_patterns, matched_label>>
    /\ UNCHANGED <<flagVars, processed_ids_this_session, content_collection, queueVars,
                   streamVars, scanVars, itemVars, aiVars, matches, keyed, ai_busy, skipVars, ghVars, cmds>>

\* check_if_item_matches builds the content of the item and copies the
\* dict: `with patterns_lock: current_patterns = SEARCH_PATTERNS.copy()`
MatchSnapshot(content) ==
    /\ match_pc = "idle"
    /\ match_pc' = "search"
    /\ content_to_check' = content
    /\ current_patterns' = SEARCH_PATTERNS
    /\ matched_label' = NoLabel
    /\ UNCHANGED <<SEARCH_PATTERNS, patterns_list, upd_idx, new_patterns, installed_list,
                   replaces>>
    /\ UNCHANGED <<flagVars, processed_ids_this_session, content_collection, queueVars,
                   streamVars, scanVars, itemVars, aiVars, matches, keyed, ai_busy, skipVars, ghVars, cmds>>

\* check_if_item_matches goes through its copy and returns.
MatchSearch ==
    /\ match_pc = "search"
    /\ match_pc' = "idle"
    /\ matched_label' = first_match(current_patterns, content_to_check)
    /\ UNCHANGED <<SEARCH_PATTERNS, patterns_list, upd_idx, new_patterns, installed_list,
                   replaces, content_to_check, current_patterns>>
    /\ UNCHANGED <<flagVars, processed_ids_this_session, content_collection, queueVars,
                   streamVars, scanVars, itemVars, aiVars, matches, keyed, ai_busy, skipVars, ghVars, cmds>>

\* ----------------------------------------------------------- slow pool
\* A task of a burst of enrichments takes a free slow-pool worker and its
\* provider call does not return.
AiBurst ==
    /\ WorkersInUse < MAX_AI_WORKERS
    /\ ai_busy' = ai_busy + 1
    /\ UNCHANGED <<flagVars, processed_ids_this_session, content_collection, queueVars,
                   streamVars, scanVars, itemVars, aiVars, matches, keyed, patternVars, skipVars, ghVars, cmds>>

\* ---------------------------------------------------- items without id
\* ItemSkip with the item admitted under the id of another item.
ItemSkip_Reserves ==
    /\ noid_queue > 0
    /\ noid_queue' = noid_queue - 1
    /\ skipped' = skipped + 1
    /\ processed_ids_this_session' = processed_ids_this_session \cup {1}
    /\ UNCHANGED <<matches, keyed, patternVars, ai_busy, ghVars, flagVars, content_collection, queueVars,
                   streamVars, scanVars, itemVars, aiVars, cmds>>

\* process_and_queue_api_item for an item without id:
\* `if not item_id_from_source: logging.warning(...); return`
ItemSkip ==
    /\ noid_queue > 0
    /\ noid_queue' = noid_queue - 1
    /\ skipped' = skipped + 1
    /\ UNCHANGED <<matches, keyed, patternVars, ai_busy, ghVars, flagVars, processed_ids_this_session, content_collection, queueVars,
                   streamVars, scanVars, itemVars, aiVars, cmds>>

\* ------------------------------------------------------- composite ids
\* A source name or a provider id is a text over the characters "a" and "-".
Chars == {"a", "-"}
Texts == UNION {[1..n -> Chars] : n \in 0..MaxText}

\* f"{source_config['name']}-{item_id_from_source}"
unique_item_id(source_name, item_id_from_source) ==
    source_name \o <<"-">> \o item_id_from_source

\* The head of process_and_queue_api_item: an item with no id is skipped,
\* any other item gets its composite id.
KeyItem(source_name, item_id_from_source) ==
    /\ item_id_from_source # <<>>
    /\ Cardinality(keyed) < MaxKeyed
    /\ keyed' = keyed \cup {[source_name |-> source_name,
                              item_id |-> item_id_from_source,
                              unique_item_id |-> unique_item_id(source_name, item_id_from_source)]}
    /\ UNCHANGED <<flagVars, processed_ids_this_session, content_collection, queueVars,
                   streamVars, scanVars, itemVars, aiVars, matches, patternVars, ai_busy, skipVars, ghVars, cmds>>

\* ---------------------------------------------------------------- /stream
\* A client opens /stream: its generator starts to call update_queue.get().
StreamConnect(c) ==
    /\ connected_at[c] = -1
    /\ connected_at' = [connected_at EXCEPT ![c] = taken + Len(update_queue)]
    /\ UNCHANGED <<matches, keyed, patternVars, ai_busy, skipVars, ghVars, flagVars, processed_ids_this_session, content_collection, queueVars,
                   taken, received, scanVars, itemVars, aiVars, cmds>>

\* update_queue.get() in one consumer's generator: the head of the queue is
\* removed and handed to that consumer alone.
StreamGet(c) ==
    /\ connected_at[c] # -1
    /\ update_queue # <<>>
    /\ received' = [received EXCEPT ![c] = Append(received[c], taken + 1)]
    /\ taken' = taken + 1
    /\ update_queue' = Tail(update_queue)
    /\ UNCHANGED <<scan_events, item_events, ops_events>>
    /\ UNCHANGED <<matches, keyed, patternVars, ai_busy, skipVars, ghVars, flagVars, processed_ids_this_session, content_collection, connected_at,
                   scanVars, itemVars, aiVars, cmds>>

\* Any producer thread appends an event (update_queue.put never blocks).
Produce(e) ==
    /\ taken + Len(update_queue) < MaxEvents
    /\ PutByHandler(e)
    /\ UNCHANGED <<matches, keyed, patternVars, ai_busy, skipVars, ghVars, flagVars, processed_ids_this_session, content_collection, streamVars,
                   scanVars, itemVars, aiVars, cmds>>

\* ------------------------------------------------- open-system steps
\* A running scanner submits a matched item to global_executor; used where
\* the scanners are not modelled step by step.
Match(id) ==
    /\ \E s \in Sessions : scan_pc[s] # "unused"
    /\ matches < MaxMatches
    /\ matches' = matches + 1
    /\ fast_queue' = [fast_queue EXCEPT ![id] = fast_queue[id] + 1]
    /\ UNCHANGED <<keyed, patternVars, ai_busy, skipVars, ghVars, flagVars, processed_ids_this_session, content_collection, queueVars,
                   streamVars, scanVars, item_pc, handled, aiVars, cmds>>

\* A running scanner submits a matched item in which the configured id
\* field is missing.
MatchNoId ==
    /\ \E s \in Sessions : scan_pc[s] # "unused"
    /\ matches < MaxMatches
    /\ matches' = matches + 1
    /\ noid_queue' = noid_queue + 1
    /\ UNCHANGED skipped
    /\ UNCHANGED <<keyed, patternVars, ai_busy, ghVars, flagVars, processed_ids_this_session, content_collection, queueVars,
                   streamVars, scanVars, itemVars, aiVars, cmds>>

\* The provider call of a submitted item fails with a throttling error; used
\* where the enrichment tasks are not modelled step by step.
Throttle(id) ==
    /\ fast_queue[id] > 0
    /\ ~is_paused_due_to_rate_limit
    /\ is_paused_due_to_rate_limit' = TRUE
    /\ PutByItem(id, StatusEvent("rate_limit_paused", "throttled"))
    /\ UNCHANGED <<is_manually_paused, is_scan_cancelled, processed_ids_this_session,
                   content_collection, streamVars, scanVars, itemVars, aiVars, cmds>>

\* ------------------------------------------- git-sauron: GitHub scanner
\* The issue feed: pages 1..MaxGhPages hold MaxPerPage issues each, a later
\* page holds none; the Link header names the next page on all but the last.
GhPageSize(p) == IF p >= 1 /\ p <= MaxGhPages THEN MaxPerPage ELSE 0
GhNextLink(p) == IF p < MaxGhPages THEN p + 1 ELSE 0

OtherVars == <<flagVars, processed_ids_this_session, content_collection, queueVars,
               streamVars, scanVars, itemVars, aiVars, matches, keyed, patternVars,
               ai_busy, skipVars>>

\* update_queue.put of a status event. An event the scanner thread puts
\* records in after_items the number of item events in the queue before it;
\* an event of a pool task or of a route handler (GhNotice) records none.
GhNotice(st, why) == [status |-> st, reason |-> why, next_page |-> 0, after_items |-> 0]
GhStatus(st, why) == [status |-> st, reason |-> why, next_page |-> 0, after_items |-> gh_done]
GhScanPaused(np) == [status |-> "scan_paused", reason |-> "limit", next_page |-> np, after_items |-> gh_done]
GhPut(e) == gh_events' = Append(gh_events, e)

\* POST /scan-github {repo, start_page}: a thread runs perform_github_scan.
scan_github(page) ==
    /\ gh_pc = "unused"
    /\ gh_pc' = "queued"
    /\ gh_start_page' = page
    /\ UNCHANGED <<gh_current_page, gh_api_url, gh_issues, gh_idx, matches_found_this_run,
                   gh_done, gh_events, gh_checked, gh_rate, gh_exit>>
    /\ UNCHANGED <<OtherVars, cmds>>

\* Entry of perform_github_scan: a repo string without "/" puts
\* status=error and returns; else status=scanning and the pool is created.
GhStart(valid_repo) ==
    /\ gh_pc = "queued"
    /\ IF valid_repo
         THEN /\ GhPut(GhStatus("scanning", "starting"))
              /\ gh_api_url' = gh_start_page
              /\ gh_current_page' = gh_start_page
              /\ matches_found_this_run' = 0
              /\ gh_pc' = "loop"
         ELSE /\ GhPut(GhStatus("error", "invalid_repo"))
              /\ gh_pc' = "done"
              /\ UNCHANGED <<gh_api_url, gh_current_page, matches_found_this_run>>
    /\ UNCHANGED <<gh_start_page, gh_issues, gh_idx, gh_done, gh_checked, gh_rate, gh_exit>>
    /\ UNCHANGED <<OtherVars, cmds>>

\* One pass of `while api_url`: the loop ends without a next page, on the
\* rate-limit flag or on an empty page; a failed request raises; else the
\* issue loop starts.
GhFetch(outcome) ==
    /\ gh_pc = "loop"
    /\ IF gh_api_url = 0 \/ gh_rate
         THEN /\ gh_pc' = "exit" /\ gh_exit' = "complete"
              /\ UNCHANGED <<gh_issues, gh_idx>>
         ELSE IF outcome = "request_failed"
         THEN /\ gh_pc' = "exit" /\ gh_exit' = "error"
              /\ UNCHANGED <<gh_issues, gh_idx>>
         ELSE IF GhPageSize(gh_api_url) = 0
         THEN /\ gh_pc' = "exit" /\ gh_exit' = "complete"
              /\ UNCHANGED <<gh_issues, gh_idx>>
         ELSE /\ gh_issues' = GhPageSize(gh_api_url)
              /\ gh_idx' = 1
              /\ gh_pc' = "issues"
              /\ UNCHANGED gh_exit
    /\ UNCHANGED <<gh_start_page, gh_current_page, gh_api_url, matches_found_this_run,
                   gh_done, gh_events, gh_checked, gh_rate>>
    /\ UNCHANGED <<OtherVars, cmds>>

\* One pass of `for issue in issues`: the issue is checked, a match is
\* counted and submitted to the pool, and the loop is left once the count
\* has reached MAX_RESULTS_PER_RUN.
GhIssue(matched) ==
    /\ gh_pc = "issues"
    /\ gh_checked' = [gh_checked EXCEPT ![gh_current_page] = gh_checked[gh_current_page] + 1]
    /\ matches_found_this_run' = matches_found_this_run + (IF matched THEN 1 ELSE 0)
    /\ IF matches_found_this_run' >= MAX_RESULTS_PER_RUN \/ gh_idx = gh_issues
         THEN gh_pc' = "after_issues" /\ UNCHANGED gh_idx
         ELSE gh_pc' = "issues" /\ gh_idx' = gh_idx + 1
    /\ UNCHANGED <<gh_start_page, gh_current_page, gh_api_url, gh_issues, gh_done,
                   gh_events, gh_rate, gh_exit>>
    /\ UNCHANGED <<OtherVars, cmds>>

\* After the issue loop: at the result limit status=scan_paused is put with
\* next_page = current_page + 1 and the function returns; else the next
\* page is taken from the Link header and current_page += 1.
GhAfterIssues ==
    /\ gh_pc = "after_issues"
    /\ IF matches_found_this_run >= MAX_RESULTS_PER_RUN
         THEN /\ GhPut(GhScanPaused(gh_current_page + 1))
              /\ gh_pc' = "exit" /\ gh_exit' = "return"
              /\ UNCHANGED <<gh_api_url, gh_current_page>>
         ELSE /\ gh_api_url' = GhNextLink(gh_current_page)
              /\ gh_current_page' = gh_current_page + 1
              /\ gh_pc' = "loop"
              /\ UNCHANGED <<gh_events, gh_exit>>
    /\ UNCHANGED <<gh_start_page, gh_issues, gh_idx, matches_found_this_run, gh_done,
                   gh_checked, gh_rate>>
    /\ UNCHANGED <<OtherVars, cmds>>

\* GhExit that does not wait for the pool.
GhExit_NoWait ==
    /\ gh_pc = "exit"
    /\ gh_pc' = "done"
    /\ IF gh_exit = "complete" THEN GhPut(GhStatus("idle", "complete"))
       ELSE IF gh_exit = "error" THEN GhPut(GhStatus("error", "request_failed"))
       ELSE UNCHANGED gh_events
    /\ UNCHANGED <<gh_start_page, gh_current_page, gh_api_url, gh_issues, gh_idx,
                   matches_found_this_run, gh_done, gh_checked, gh_rate, gh_exit>>
    /\ UNCHANGED <<OtherVars, cmds>>

\* The `with ThreadPoolExecutor(...)` block is left: its __exit__ waits for
\* every submitted task; then status=idle is put after the loop, or
\* status=error in the except clause, or the function has returned.
GhExit ==
    /\ gh_pc = "exit"
    /\ gh_done = matches_found_this_run
    /\ gh_pc' = "done"
    /\ IF gh_exit = "complete" THEN GhPut(GhStatus("idle", "complete"))
       ELSE IF gh_exit = "error" THEN GhPut(GhStatus("error", "request_failed"))
       ELSE UNCHANGED gh_events
    /\ UNCHANGED <<gh_start_page, gh_current_page, gh_api_url, gh_issues, gh_idx,
                   matches_found_this_run, gh_done, gh_checked, gh_rate, gh_exit>>
    /\ UNCHANGED <<OtherVars, cmds>>

\* A pool worker runs process_and_queue_github_issue: get_llm_summary, whose
\* throttled call sets the flag and puts status=rate_limit_paused, then the
\* put of the item.
GhTask(outcome) ==
    /\ gh_done < matches_found_this_run
    /\ gh_done' = gh_done + 1
    /\ IF outcome = "rate_limit" /\ ~gh_rate
         THEN /\ gh_rate' = TRUE
              /\ GhPut(GhNotice("rate_limit_paused", "throttled"))
         ELSE UNCHANGED <<gh_rate, gh_events>>
    /\ UNCHANGED <<gh_pc, gh_start_page, gh_current_page, gh_api_url, gh_issues, gh_idx,
                   matches_found_this_run, gh_checked, gh_exit>>
    /\ UNCHANGED <<OtherVars, cmds>>

\* POST /resume-operations of git-sauron.
gh_resume_operations ==
    /\ cmds < MaxCmds
    /\ gh_rate
    /\ cmds' = cmds + 1
    /\ gh_rate' = FALSE
    /\ GhPut(GhNotice("idle", "resumed"))
    /\ UNCHANGED <<gh_pc, gh_start_page, gh_current_page, gh_api_url, gh_issues, gh_idx,
                   matches_found_this_run, gh_done, gh_checked, gh_exit>>
    /\ UNCHANGED OtherVars

\* ---------------------------------------------------------- specifications
Commands ==
    \/ \E s \in Sessions, p \in 1..MaxStartPage : scan_source(s, p)
    \/ scan_source_rejected
    \/ \E n \in 1..MaxSessions : scan_all_sources(n)
    \/ scan_all_sources_rejected
    \/ generate_summary
    \/ pause_scan
    \/ resume_scan
    \/ cancel_scan
    \/ resume_operations

Scanners ==
    \E s \in Sessions :
        \/ ScanStart(s)
        \/ \E has_api_url \in BOOLEAN : ScanCheckUrl(s, has_api_url)
        \/ ScanCheckCancel(s)
        \/ ScanCheckPause(s)
        \/ ScanWait(s)
        \/ ScanCheckRate(s)
        \/ \E outcome \in {"ok", "not_a_list", "request_failed", "bad_json"} : ScanFetch(s, outcome)
        \/ ScanItem(s)
        \/ ScanAfterItems(s)
        \/ ScanPost(s)

Enrichment ==
    \E id \in Ids :
        \/ ItemGate(id)
        \/ ItemReplay(id)
        \/ ItemSubmit(id)
        \/ AiStart(id)
        \/ LlmCheckPause(id)
        \/ LlmCheckRate(id)
        \/ \E outcome \in {"reply", "rate_limit", "error"} : LlmReturn(id, outcome)
        \/ AiFinish(id)

Patterns ==
    \/ \E new_patterns_list \in RuleLists : manage_patterns(new_patterns_list)
    \/ UpdateRule
    \/ UpdateSwap
    \/ \E content \in Contents : MatchSnapshot(content)
    \/ MatchSearch

\* The scanners with the route handlers; the enrichment side acts through
\* the rate-limit flag only.
InitScan == InitCommon /\ content_collection = [id \in Ids |-> NoDoc]
NextScan == Commands \/ Scanners \/ \E id \in Ids : Throttle(id)
SpecScan == InitScan /\ [][NextScan]_vars

\* The item and enrichment tasks with the route handlers; the scanners act
\* through the items they submit only.
InitEnrich == InitCommon /\ content_collection \in InitStores
NextEnrich == Commands \/ Enrichment \/ \E id \in Ids : Match(id)
SpecEnrich == InitEnrich /\ [][NextEnrich]_vars

\* The /stream consumers with producers that put events.
InitStream == InitCommon /\ content_collection = [id \in Ids |-> NoDoc]
NextStream ==
    \/ Produce(StatusEvent("idle", "resumed"))
    \/ \E c \in Consumers : StreamConnect(c) \/ StreamGet(c)
SpecStream == InitStream /\ [][NextStream]_vars

\* The whole pipeline: route handlers, scanners, item tasks and enrichment
\* tasks together.
InitPipeline == InitCommon /\ content_collection \in InitStores
NextPipeline == Commands \/ Scanners \/ Enrichment
SpecPipeline == InitPipeline /\ [][NextPipeline]_vars

\* The composite ids of the items of configured sources.
InitKeys == InitCommon /\ content_collection = [id \in Ids |-> NoDoc]
NextKeys == \E source_name \in Texts \ {<<>>}, item_id \in Texts : KeyItem(source_name, item_id)
SpecKeys == InitKeys /\ [][NextKeys]_vars


\* Slow-pool and fast-pool workers run every task that is handed to them and
\* provider calls return.
FairEnrich ==
    \A id \in Ids :
        WF_vars(\/ ItemReplay(id)
                \/ ItemSubmit(id)
                \/ AiStart(id)
                \/ LlmCheckPause(id)
                \/ LlmCheckRate(id)
                \/ \E outcome \in {"reply", "rate_limit", "error"} : LlmReturn(id, outcome)
                \/ AiFinish(id))
SpecEnrichFair == InitEnrich /\ [][NextEnrich]_vars /\ FairEnrich

\* ----------------------------------------------------------- observations
Last(seq) == seq[Len(seq)]
IsPending(e) == e.type = "api_item" /\ e.summary_status = "pending"
IsApiItem(e) == e.type = "api_item"
IsSummary(e) == e.type = "summary_update"
IsLlmSummary(e) == e.type = "summary_update" /\ e.origin = "llm"
Pendings(id) == Cardinality({k \in DOMAIN item_events[id] : IsPending(item_events[id][k])})
ApiItems(id) == Cardinality({k \in DOMAIN item_events[id] : IsApiItem(item_events[id][k])})
Summaries(id) == Cardinality({k \in DOMAIN item_events[id] : IsSummary(item_events[id][k])})
LlmSummaries(id) == Cardinality({k \in DOMAIN item_events[id] : IsLlmSummary(item_events[id][k])})
EnrichmentOnItsWay(id) == item_pc[id] = "submit" \/ ai_pc[id] # "none"

\* ------------------------------------------------------------------ C1
\* C1 as stated: no composite id is submitted to the slow pool more than
\* once during the lifetime of the process.
C1_SubmittedAtMostOnce == \A id \in Ids : submits[id] <= 1

\* C1 amended: an id is submitted to the slow pool again only after its
\* earlier submission was released at the pause/cancel check, so the number
\* of submissions never exceeds the number of releases by more than one.
C1_SubmittedOncePerReservation ==
    \A id \in Ids :
        /\ submits[id] <= releases[id] + 1
        /\ releases[id] <= submits[id]
        /\ (id \notin processed_ids_this_session) => submits[id] = releases[id]

\* An id was released once and submitted a second time, and a further match
\* of it was handled as well.
C1_Witness == \E id \in Ids : submits[id] = 2 /\ releases[id] = 1 /\ handled[id] >= 3

Unanswered(id) == Pendings(id) > LlmSummaries(id) + releases[id]
C3_PagesConsecutive ==
    \A s \in Sessions :
        \A k \in DOMAIN fetched[s] : fetched[s][k] = start_page[s] + k - 1

\* A session requested a page, was held by manual pause, and requested the
\* next page after the pause was cleared.
C3_Witness ==
    \E s \in Sessions :
        /\ Len(fetched[s]) >= 2
        /\ \E i, j, k \in DOMAIN scan_events[s] :
              /\ i < j /\ j < k
              /\ scan_events[s][i].reason = "fetching"
              /\ scan_events[s][j].status = "manually_paused"
              /\ scan_events[s][k].reason = "fetching"

\* ------------------------------------------------------------------ C4
\* C4 as stated: a scanner that put status=manually_paused leaves its wait
\* only once the manual-pause flag is clear, and the pause takes neither a
\* page number nor a pass of the page budget.
C4_PauseBlocksAndIsFree ==
    [][\A s \in Sessions :
          (scan_pc[s] = "wait" /\ scan_pc'[s] # "wait") =>
              /\ ~is_manually_paused
              /\ iter'[s] = iter[s]
              /\ current_page'[s] = current_page[s]]_vars

\* ------------------------------------------------------------------ C5
\* C5 as stated: once a session has read the cancel flag as set it requests
\* no page, submits no item, and ends with status=idle (cancelled).
C5_CancelStopsSession ==
    [][\A s \in Sessions :
          saw_cancel[s] =>
              /\ fetched'[s] = fetched[s]
              /\ (scan_pc[s] = "items" => fast_queue' = fast_queue)
              /\ (scan_pc[s] # "done" /\ scan_pc'[s] = "done") =>
                     Last(scan_events'[s]) = StatusEvent("idle", "cancelled")]_vars

\* ------------------------------------------------------------------ C6
\* C6 as stated: an enrichment task that was queued when cancel was
\* requested does not get past its start: it stays queued until it releases
\* its reservation.
C6_QueuedAtCancelIsReleased ==
    \A id \in queued_at_cancel : ai_pc[id] = "queued"

\* ------------------------------------------------------------------ C7
\* C7: an enrichment that reads the rate-limit flag as set returns a text
\* that begins with a reserved marker and starts no provider call; one that
\* reads it as clear starts the call; the flag is cleared by
\* resume_operations only.
C7_RateLimitShortCircuits ==
    [][/\ \A id \in Ids :
             (ai_pc[id] = "llm_rate" /\ ai_pc'[id] # "llm_rate") =>
                 IF is_paused_due_to_rate_limit
                   THEN /\ ai_calls'[id] = ai_calls[id]
                        /\ ai_pc'[id] = "finish"
                        /\ startswith(ai_summary'[id], FailureMarkers)
                   ELSE /\ ai_calls'[id] = ai_calls[id] + 1
                        /\ ai_pc'[id] = "calling"
       /\ (is_paused_due_to_rate_limit /\ ~is_paused_due_to_rate_limit') =>
              ops_events' = Append(ops_events, StatusEvent("idle", "resumed"))]_vars

\* An enrichment was short-circuited while the flag was set (its
\* summary_update carries the rate-limit text and followed no provider
\* call), and resume_operations has cleared the flag since.
C7_Witness ==
    \E id \in Ids :
        /\ item_events[id] # <<>>
        /\ Last(item_events[id]) = SummaryEvent(id, TextRateLimitBlocked, "llm")
        /\ ai_calls[id] = 0
        /\ ops_events # <<>>
        /\ ~is_paused_due_to_rate_limit

\* ------------------------------------------------------------------ C8
\* A record with a valid summary that was in the store before this process
\* matched the id.
ValidRecord(doc) ==
    /\ doc.present
    /\ doc.ai_summary # NoText
    /\ \A m \in FailureMarkers :
          \/ Len(doc.ai_summary) < Len(m)
          \/ \E k \in 1..Len(m) : doc.ai_summary[k] # m[k]
StoredBefore(id) == ValidRecord(content_collection[id]) /\ submits[id] = 0
CachedPair(id) ==
    <<ApiItemEvent(id, "complete", "db"),
      SummaryEvent(id, content_collection[id].ai_summary, "db")>>

\* C8 as stated: every handled re-match of a stored id yields one api_item
\* and one summary_update from the stored record.
C8_EveryRematchReplays ==
    \A id \in Ids :
        (StoredBefore(id) /\ item_pc[id] = "idle") =>
            /\ ApiItems(id) = handled[id]
            /\ Summaries(id) = handled[id]

\* C8 amended: the first re-match of a stored id in the process (the id is
\* not in the session dedup set) yields exactly one api_item followed by
\* exactly one summary_update, both from the stored record; every further
\* re-match of the id in the process is dropped by the dedup gate with no
\* event; no re-match makes a provider call. A record written by this
\* process is not replayed in this process.
C8_FirstRematchReplaysOnce ==
    \A id \in Ids :
        /\ StoredBefore(id) =>
              /\ ai_calls[id] = 0
              /\ item_events[id] =
                    IF handled[id] = 0 THEN <<>>
                    ELSE IF item_pc[id] = "cached_summary" THEN SubSeq(CachedPair(id), 1, 1)
                    ELSE CachedPair(id)
        /\ submits[id] > 0 =>
              \A k \in DOMAIN item_events[id] :
                  item_events[id][k].type = "status" \/ item_events[id][k].origin # "db"

\* A stored id was matched and handled twice and replayed once.
C8_Witness ==
    \E id \in Ids :
        /\ StoredBefore(id)
        /\ handled[id] >= 2
        /\ item_pc[id] = "idle"
        /\ item_events[id] = CachedPair(id)

\* ------------------------------------------------------------------ C9
\* The events a consumer was handed that were appended after it connected.
Fresh(c) == SelectSeq(received[c], LAMBDA n : n > connected_at[c])

\* C9 as stated: with two or more consumers connected, each is handed every
\* event appended after it connected, in append order (none is missed).
C9_EveryConsumerGetsEveryEvent ==
    Cardinality({c \in Consumers : connected_at[c] # -1}) >= 2 =>
        \A c \in Consumers :
            \A k \in DOMAIN Fresh(c) : Fresh(c)[k] = connected_at[c] + k

\* ------------------------------------------------------------------ C10
\* C10 as stated: a consumer is never handed an event that was appended
\* before it connected.
C10_NoReplayOfHistory ==
    \A c \in Consumers :
        \A k \in DOMAIN received[c] : received[c][k] > connected_at[c]

\* ------------------------------------------------------------------ C11
\* C11 as stated: every status=scan_paused event of a session carries
\* next_page = start_page + PAGES_PER_SCAN.
C11_NextPageIsStartPlusBudget ==
    \A s \in Sessions :
        \A k \in DOMAIN scan_events[s] :
            scan_events[s][k].status = "scan_paused" =>
                scan_events[s][k].next_page = start_page[s] + PAGES_PER_SCAN

\* ------------------------------------------------------------------ C12
\* A finished session that ended neither by an empty page (status=idle,
\* complete) nor by an error.
EndedEarly(s) ==
    /\ scan_pc[s] = "done"
    /\ Last(scan_events[s]) # StatusEvent("idle", "complete")
    /\ Last(scan_events[s]).status # "error"

\* C12 as stated: every session that ended early (page limit, cancel or
\* rate-limit halt) has reported a resumption cursor: its last event carries
\* next_page.
C12_EarlyEndReportsCursor ==
    \A s \in Sessions :
        EndedEarly(s) => "next_page" \in DOMAIN Last(scan_events[s])

\* ------------------------------------------------------------------ C13
\* C13: every summary_update put for an id comes after an api_item put for
\* the same id, on the fresh path, on the cache path and after a release and
\* retry of the id.
C13_SummaryAfterApiItem ==
    \A id \in Ids :
        \A k \in DOMAIN item_events[id] :
            IsSummary(item_events[id][k]) =>
                \E j \in 1..(k - 1) :
                    /\ IsApiItem(item_events[id][j])
                    /\ item_events[id][j].id = item_events[id][k].id

\* One id was replayed from the store and another id was released, matched
\* again and answered by its enrichment.
C13_Witness ==
    /\ \E id \in Ids : item_events[id] = CachedPair(id)
    /\ \E id \in Ids :
          /\ releases[id] >= 1
          /\ Pendings(id) >= 2
          /\ IsLlmSummary(Last(item_events[id]))

\* ------------------------------------------------------------------ C14
\* C14 as stated, in the form a finite run refutes: once every triggered
\* session has put its terminal status event, no matched item is still
\* waiting for its api_item event to be appended.
AllSessionsEnded ==
    /\ \E s \in Sessions : scan_pc[s] = "done"
    /\ \A s \in Sessions : scan_pc[s] \in {"unused", "done"}
AwaitsApiItem(id) == fast_queue[id] > 0 /\ id \notin processed_ids_this_session
C14_ApiItemsBeforeTerminalStatus ==
    AllSessionsEnded => \A id \in Ids : ~AwaitsApiItem(id)

\* C14 amended: the scanner hands each matched item to the fast pool and the
\* item's api_item event is appended by that fast-pool task: after a
\* session's status=scanning events (starting, fetching) and before the task
\* submits the enrichment to the slow pool, so every submission has its
\* pending api_item on the channel already; the session's terminal status
\* may come before the api_item events.
C14_ApiItemAfterScanningBeforeSubmit ==
    \A id \in Ids :
        /\ item_events[id] # <<>> =>
              \E s \in Sessions :
                  /\ scan_events[s] # <<>>
                  /\ scan_events[s][1] = StatusEvent("scanning", "starting")
                  /\ \E k \in DOMAIN scan_events[s] :
                         scan_events[s][k] = StatusEvent("scanning", "fetching")
        /\ Pendings(id) = submits[id] + (IF item_pc[id] = "submit" THEN 1 ELSE 0)

\* A session has put its terminal status while one matched item has been
\* answered by its enrichment and another still waits for its api_item.
C14_Witness ==
    /\ AllSessionsEnded
    /\ \E id \in Ids : Pendings(id) >= 1 /\ LlmSummaries(id) >= 1
    /\ \E id \in Ids : AwaitsApiItem(id)

\* ------------------------------------------------------------------ C15
\* C15: when a provider call returns with a throttling failure, the
\* rate-limit flag is set and status=rate_limit_paused is put at once; the
\* item's summary_update is put after it, carries a text that begins with a
\* reserved failure marker, and the store is left as it was.
C15_ThrottledCallPausesAndStoresNothing ==
    [][\A id \in Ids :
          /\ (ai_pc[id] = "calling" /\ ai_summary'[id] = TextRateLimitError) =>
                /\ is_paused_due_to_rate_limit'
                /\ item_events'[id] =
                       Append(item_events[id], StatusEvent("rate_limit_paused", "throttled"))
          /\ (ai_pc[id] = "finish" /\ ai_summary[id] = TextRateLimitError
                  /\ ai_pc'[id] # "finish") =>
                /\ Last(item_events[id]) = StatusEvent("rate_limit_paused", "throttled")
                /\ item_events'[id] =
                       Append(item_events[id], SummaryEvent(id, TextRateLimitError, "llm"))
                /\ startswith(Last(item_events'[id]).ai_summary, FailureMarkers)
                /\ content_collection' = content_collection]_vars

\* An item's provider call was throttled: its last two events are
\* status=rate_limit_paused and the summary_update with the failure text, the
\* flag is set and the store has no record of the id.
C15_Witness ==
    \E id \in Ids :
        /\ Len(item_events[id]) >= 3
        /\ Last(item_events[id]) = SummaryEvent(id, TextRateLimitError, "llm")
        /\ item_events[id][Len(item_events[id]) - 1] = StatusEvent("rate_limit_paused", "throttled")
        /\ is_paused_due_to_rate_limit
        /\ ~content_collection[id].present

\* ------------------------------------------------------------------ C16
\* C16: a step that triggers a scan leaves the manual-pause and cancel flags
\* clear and the rate-limit flag as it was; every step that changes the
\* manual-pause or the cancel flag leaves the rate-limit flag as it was; the
\* rate-limit flag is cleared by resume_operations only (which puts
\* status=idle) and set by a throttling failure of a provider call only
\* (which puts status=rate_limit_paused).
C16_RateLimitFlagFrame ==
    [][/\ \A s \in Sessions :
             (scan_pc[s] = "unused" /\ scan_pc'[s] = "queued") =>
                 /\ ~is_manually_paused'
                 /\ ~is_scan_cancelled'
                 /\ is_paused_due_to_rate_limit' = is_paused_due_to_rate_limit
       /\ (is_manually_paused' # is_manually_paused \/ is_scan_cancelled' # is_scan_cancelled) =>
              is_paused_due_to_rate_limit' = is_paused_due_to_rate_limit
       /\ (is_paused_due_to_rate_limit /\ ~is_paused_due_to_rate_limit') =>
              /\ ops_events' = Append(ops_events, StatusEvent("idle", "resumed"))
              /\ UNCHANGED <<is_manually_paused, is_scan_cancelled>>
       /\ (~is_paused_due_to_rate_limit /\ is_paused_due_to_rate_limit') =>
              \/ ops_events' = Append(ops_events, StatusEvent("rate_limit_paused", "throttled"))
              \/ \E id \in Ids :
                    /\ ai_pc[id] = "calling"
                    /\ item_events'[id] =
                           Append(item_events[id], StatusEvent("rate_limit_paused", "throttled"))]_vars

\* A scan was triggered while the rate-limit flag was set and after two
\* other commands: the session is queued, the manual-pause and cancel flags
\* are clear and the rate-limit flag is still set.
C16_Witness ==
    /\ \E s \in Sessions : scan_pc[s] = "queued"
    /\ cmds >= 2
    /\ is_paused_due_to_rate_limit
    /\ ~is_manually_paused
    /\ ~is_scan_cancelled

\* ------------------------------------------------------------------ C17
\* C17: a scanner that reads the rate-limit flag as set at its page
\* checkpoint ends there: it requests no page (none at all if it has
\* requested none yet), submits no item and puts no event; an ended session
\* does nothing more.
C17_RateLimitStopsScanner ==
    [][\A s \in Sessions :
          /\ (scan_pc[s] = "chk_rate" /\ scan_pc'[s] # "chk_rate"
                  /\ is_paused_due_to_rate_limit) =>
                /\ scan_pc'[s] = "done"
                /\ fetched'[s] = fetched[s]
                /\ fast_queue' = fast_queue
                /\ scan_events'[s] = scan_events[s]
          /\ scan_pc[s] = "done" =>
                /\ scan_pc'[s] = "done"
                /\ fetched'[s] = fetched[s]
                /\ scan_events'[s] = scan_events[s]]_vars

\* A session requested a page, submitted its items, found the rate-limit
\* flag set at the next checkpoint and ended with no further event.
C17_Witness ==
    \E s \in Sessions :
        /\ scan_pc[s] = "done"
        /\ is_paused_due_to_rate_limit
        /\ Len(fetched[s]) = 1
        /\ \E id \in Ids : fast_queue[id] > 0
        /\ Last(scan_events[s]) = StatusEvent("scanning", "fetching")

\* ------------------------------------------------------------------ C18
\* The enrichment attempts of an id that were submitted to the slow pool and
\* have neither released the id nor put their summary_update.
InFlight(id) == submits[id] - releases[id] - LlmSummaries(id)

\* C18: at most one enrichment attempt per id is queued or executing on the
\* slow pool at any time, also after the id was released and admitted again;
\* an id is admitted again only once its earlier attempt is over.
C18_OneAttemptPerId ==
    \A id \in Ids :
        /\ InFlight(id) \in {0, 1}
        /\ InFlight(id) = 1 <=> ai_pc[id] # "none"
        /\ item_pc[id] = "submit" => InFlight(id) = 0

\* An id was released by the abort path, admitted again, and its second
\* attempt is at the provider call.
C18_Witness ==
    \E id \in Ids :
        /\ releases[id] >= 1
        /\ submits[id] = 2
        /\ ai_pc[id] = "calling"

\* ------------------------------------------------------------------ C19
\* C19: a producer's put is never blocked, whatever the number of connected
\* consumers and the backlog they have left in the queue.
C19_PutNeverBlocks ==
    /\ CanPut
    /\ taken + Len(update_queue) < MaxEvents =>
           ENABLED Produce(StatusEvent("idle", "resumed"))

\* Every consumer is connected and has been handed an event, and a backlog
\* of two or more events waits in the queue.
C19_Witness ==
    /\ \A c \in Consumers : connected_at[c] # -1 /\ received[c] # <<>>
    /\ Len(update_queue) >= 2

\* ------------------------------------------------------------------ C20
\* C20 as stated: two items that differ in source name or in provider id
\* never get the same composite id.
C20_CompositeIdUnique ==
    \A x, y \in keyed :
        (x.source_name # y.source_name \/ x.item_id # y.item_id) =>
            x.unique_item_id # y.unique_item_id

\* ------------------------------------------------------------------ C21
IsErrorEvent(e) == e.type = "status" /\ e.status = "error"
FetchFailures == {"request_failed", "bad_json"}

\* A session that has ended takes no further step of its own.
SessionFrozen(s) ==
    /\ scan_pc'[s] = "done"
    /\ fetched'[s] = fetched[s]
    /\ item_idx'[s] = item_idx[s]
    /\ scan_events'[s] = scan_events[s]

\* C21: a page request that fails (request failure or undecodable body)
\* ends the session: the step puts one status=error event, the only one of
\* the session, requests no page and submits no item; the ended session
\* requests nothing, submits nothing and puts nothing afterwards.
C21_FetchFailureEndsSession ==
    [][\A s \in Sessions :
          /\ (/\ scan_pc[s] = "fetching"
              /\ scan_events'[s] # scan_events[s]
              /\ IsErrorEvent(Last(scan_events'[s]))) =>
                /\ scan_pc'[s] = "done"
                /\ \E why \in FetchFailures :
                       scan_events'[s] = Append(scan_events[s], StatusEvent("error", why))
                /\ \A i \in 1..Len(scan_events[s]) : ~IsErrorEvent(scan_events[s][i])
                /\ fetched'[s] = fetched[s]
                /\ fast_queue' = fast_queue
          /\ (scan_pc[s] = "done" /\ IsErrorEvent(Last(scan_events[s]))) =>
                SessionFrozen(s)]_vars

\* The request of the second page failed after the items of the first page
\* were submitted: the session ended with status=error.
C21_Witness ==
    \E s \in Sessions :
        /\ scan_pc[s] = "done"
        /\ Len(fetched[s]) = 2
        /\ Last(scan_events[s]) \in {StatusEvent("error", why) : why \in FetchFailures}
        /\ \E id \in Ids : fast_queue[id] > 0

\* ------------------------------------------------------------------ C22
IsScanPaused(e) == e.type = "status" /\ e.status = "scan_paused"

\* C22: a page answer that is neither a failure nor a list with items ends
\* the session: the step puts status=idle, submits no item and requests no
\* page; the session has put no status=scan_paused and puts none later,
\* on whichever pass of the budget this happens.
C22_EmptyPageEndsIdle ==
    [][\A s \in Sessions :
          /\ (/\ scan_pc[s] = "fetching"
              /\ scan_pc'[s] \notin {"fetching", "items"}
              /\ ~IsErrorEvent(Last(scan_events'[s]))) =>
                /\ scan_pc'[s] = "done"
                /\ scan_events'[s] = Append(scan_events[s], StatusEvent("idle", "complete"))
                /\ \A i \in 1..Len(scan_events'[s]) : ~IsScanPaused(scan_events'[s][i])
                /\ fetched'[s] = fetched[s]
                /\ fast_queue' = fast_queue
          /\ (scan_pc[s] = "done" /\ Last(scan_events[s]) = StatusEvent("idle", "complete")) =>
                SessionFrozen(s)]_vars

\* The last pass of the budget requested a page without items and the
\* session ended with status=idle.
C22_Witness ==
    \E s \in Sessions :
        /\ scan_pc[s] = "done"
        /\ iter[s] = PAGES_PER_SCAN - 1
        /\ fetched[s] # <<>>
        /\ Last(scan_events[s]) = StatusEvent("idle", "complete")

\* ------------------------------------------------------------------ C23
\* C23: a session requests its next page only after every item of the page
\* before it went through the item loop.
C23_PageItemsBeforeNextFetch ==
    [][\A s \in Sessions :
          (fetched[s] # <<>> /\ Len(fetched'[s]) > Len(fetched[s])) =>
              item_idx[s] = Len(items[s]) + 1]_vars

\* ------------------------------------------------------------------ C27
\* C27: a session that puts an event at the check of the URL template ends
\* there: its events are the starting event and one status=error, it has
\* requested no page, the step submits no item, and the ended session does
\* nothing more.
C27_MissingUrlEndsSession ==
    [][\A s \in Sessions :
          /\ (scan_pc[s] = "chk_url" /\ scan_events'[s] # scan_events[s]) =>
                /\ scan_pc'[s] = "done"
                /\ scan_events'[s] = <<StatusEvent("scanning", "starting"),
                                       StatusEvent("error", "missing_api_url")>>
                /\ fetched'[s] = <<>>
                /\ fast_queue' = fast_queue
          /\ (scan_pc[s] = "done"
                  /\ Last(scan_events[s]) = StatusEvent("error", "missing_api_url")) =>
                SessionFrozen(s)]_vars

\* A session of a source without URL template ended with status=error
\* before any request.
C27_Witness ==
    \E s \in Sessions :
        /\ scan_pc[s] = "done"
        /\ fetched[s] = <<>>
        /\ scan_events[s] = <<StatusEvent("scanning", "starting"),
                              StatusEvent("error", "missing_api_url")>>

\* ------------------------------------------------------------------ C28
\* C28: a task that reads manual pause as set before the provider call, at
\* its own check or at the check inside get_llm_summary, aborts there: it
\* makes no provider call, puts no event for the item and leaves the id out
\* of the dedup set.
C28_PauseBeforeCallAborts ==
    [][\A id \in Ids :
          (/\ ai_pc[id] \in {"queued", "llm_pause"}
           /\ is_manually_paused
           /\ ai_pc'[id] # ai_pc[id]) =>
              /\ ai_pc'[id] = "none"
              /\ ai_calls'[id] = ai_calls[id]
              /\ item_events'[id] = item_events[id]
              /\ id \notin processed_ids_this_session']_vars

\* ------------------------------------------------------------------ C29
\* C29: a task that starts with manual pause or cancel set removes its id
\* from the dedup set and ends: no provider call, no text produced, no
\* write to the content store, no event put, the three flags as they were.
C29_AbortOnlyReleasesId ==
    [][\A id \in Ids :
          (/\ ai_pc[id] = "queued"
           /\ is_manually_paused \/ is_scan_cancelled
           /\ ai_pc'[id] # "queued") =>
              /\ ai_pc'[id] = "none"
              /\ processed_ids_this_session' = processed_ids_this_session \ {id}
              /\ ai_calls' = ai_calls
              /\ ai_summary' = ai_summary
              /\ content_collection' = content_collection
              /\ UNCHANGED <<update_queue, scan_events, item_events, ops_events>>
              /\ UNCHANGED flagVars]_vars

\* A task started under pause or cancel and ended: the id is free again,
\* the item has its pending announcement only, nothing is stored for it and
\* the provider was never called.
C29_Witness ==
    \E id \in Ids :
        /\ releases[id] = 1
        /\ ai_pc[id] = "none"
        /\ id \notin processed_ids_this_session
        /\ ai_calls[id] = 0
        /\ ~content_collection[id].present
        /\ Len(item_events[id]) = 1 /\ IsPending(item_events[id][1])

\* ------------------------------------------------------------------ C30
\* The texts get_llm_summary returns when no summary was produced.
FailureTexts == {TextManualPause, TextRateLimitBlocked, TextRateLimitError, TextLLMError}

\* C30: no stored record has a summary that begins with a failure marker,
\* and a task that ends with a failure text leaves the store as it was.
C30_UpsertOnlyOnSuccess ==
    [][/\ \A id \in Ids :
             content_collection'[id].present =>
                 ~startswith(content_collection'[id].ai_summary, FailureMarkers)
       /\ \A id \in Ids :
             (ai_pc[id] = "finish" /\ ai_pc'[id] = "none"
                  /\ ai_summary[id] \in FailureTexts) =>
                 content_collection' = content_collection]_vars

\* ------------------------------------------- pattern registry on its own
\* One thread replaces the rule set while another matches an item.
InitPatterns == InitCommon /\ content_collection = [id \in Ids |-> NoDoc]
NextPatterns == Patterns
SpecPatterns == InitPatterns /\ [][NextPatterns]_vars

\* ------------------------------------------------------------------ C24
\* A rule has a label and a regex that compiles.
ValidRule(item) == item.label \in Labels /\ item.pattern \notin {"(", NotAString}
ValidRules(list) == SelectSeq(list, ValidRule)
UniqueLabels(d) == \A i, j \in 1..Len(d) : d[i].label = d[j].label => i = j

\* The label of the first entry of d whose pattern finds a match in content.
FirstHit(d, content) ==
    LET hits == {i \in 1..Len(d) : search(d[i].pattern, content)} IN
    IF hits = {} THEN NoLabel
    ELSE d[CHOOSE i \in hits : \A j \in hits : i <= j].label

\* C24: once a replace call is over, the registry holds the rules of its
\* argument that have a label and a regex that compiles, in the order of
\* the argument (for valid rules with distinct labels); the labels of the
\* registry are distinct; a finished match returned the label of the first
\* rule of its copy whose pattern matches, or none.
C24_ReplaceInstallsValidRules ==
    /\ (upd_idx = 0 /\ replaces > 0 /\ UniqueLabels(ValidRules(patterns_list))) =>
           SEARCH_PATTERNS = ValidRules(patterns_list)
    /\ UniqueLabels(SEARCH_PATTERNS)
    /\ match_pc = "idle" => matched_label = FirstHit(current_patterns, content_to_check)

\* ------------------------------------------------------------------ C25
\* C25: the copy a match takes is the whole rule set of the last replace
\* call that reached its assignment, also while another call is building
\* its dict; the copy does not change while the match runs, and the match
\* returns the first hit of that copy.
C25_MatchSeesWholeRuleSet ==
    [][/\ (match_pc = "idle" /\ match_pc' = "search") =>
              current_patterns' = Installed(installed_list)
       /\ (match_pc = "search" /\ match_pc' = "search") =>
              current_patterns' = current_patterns
       /\ (match_pc = "search" /\ match_pc' = "idle") =>
              matched_label' = FirstHit(current_patterns, content_to_check)]_vars

\* A match holds the two rules of the last replace while the next replace
\* call has put the first of its two rules into its own dict.
C25_Witness ==
    /\ match_pc = "search"
    /\ replaces = 2
    /\ upd_idx = 2 /\ Len(patterns_list) = 2
    /\ Len(new_patterns) = 1
    /\ Len(current_patterns) = 2
    /\ current_patterns = Installed(installed_list)
    /\ new_patterns[1] # current_patterns[1]

\* ------------------------------------------------ scanning under a burst
\* Scans are triggered, and may be cancelled, while a burst of enrichments
\* whose provider calls do not return takes the slow-pool workers; no pause
\* or resume request arrives. The store may hold records of earlier runs.
\* Every scanner thread that can run gets to run.
ScannerStep(s) ==
    \/ ScanStart(s)
    \/ \E has_api_url \in BOOLEAN : ScanCheckUrl(s, has_api_url)
    \/ ScanCheckCancel(s)
    \/ ScanCheckPause(s)
    \/ ScanCheckRate(s)
    \/ \E outcome \in {"ok", "not_a_list", "request_failed", "bad_json"} : ScanFetch(s, outcome)
    \/ ScanItem(s)
    \/ ScanAfterItems(s)
    \/ ScanPost(s)

InitBurst == InitCommon /\ content_collection \in InitStores
NextBurst ==
    \/ \E s \in Sessions, p \in 1..MaxStartPage : scan_source(s, p)
    \/ cancel_scan
    \/ \E s \in Sessions : ScannerStep(s)
    \/ Enrichment
    \/ AiBurst
FairBurst == \A s \in Sessions : WF_vars(ScannerStep(s))
SpecBurst == InitBurst /\ [][NextBurst]_vars /\ FairBurst

\* ------------------------------------------------------------------ C26
TerminalStatus(e) ==
    e.type = "status" /\ e.status \in {"idle", "scan_paused", "error"}

C31_IdStaysInDedupSet ==
    [][\A id \in Ids :
          /\ (id \in processed_ids_this_session /\ id \notin processed_ids_this_session') =>
                /\ ai_pc[id] = "queued" /\ ai_pc'[id] = "none"
                /\ is_manually_paused \/ is_scan_cancelled
          /\ Summaries(id)' > 0 => id \in processed_ids_this_session'
          /\ (handled'[id] > handled[id] /\ id \in processed_ids_this_session) =>
                /\ item_events'[id] = item_events[id]
                /\ update_queue' = update_queue
                /\ submits'[id] = submits[id]
                /\ ai_calls'[id] = ai_calls[id]
                /\ item_pc'[id] = item_pc[id]
                /\ ai_pc'[id] = ai_pc[id]
                /\ processed_ids_this_session' = processed_ids_this_session]_vars

\* The only provider call of an id was throttled, the operator resumed
\* operations, and a second match of the id was dropped.
C31_Witness ==
    \E id \in Ids :
        /\ ~is_paused_due_to_rate_limit
        /\ handled[id] = 2 /\ fast_queue[id] = 0
        /\ id \in processed_ids_this_session
        /\ ai_calls[id] = 1 /\ ai_pc[id] = "none"
        /\ Last(item_events[id]) = SummaryEvent(id, TextRateLimitError, "llm")
        /\ Len(ops_events) > 0 /\ Last(ops_events) = StatusEvent("idle", "resumed")

\* ------------------------------------------------------------------ C32
\* The pages start_page .. next_page - 1, in order.
PagesBefore(first, next) == [k \in 1..(next - first) |-> first + k - 1]

\* C32: when a session has put status=scan_paused, the pages it requested
\* are exactly start_page .. next_page - 1, each once, and every item of the
\* last of them went through the item loop.
C32_CursorIsSound ==
    \A s \in Sessions :
        (scan_events[s] # <<>> /\ IsScanPaused(Last(scan_events[s]))) =>
            /\ fetched[s] = PagesBefore(start_page[s], Last(scan_events[s]).next_page)
            /\ fetched[s] # <<>> => item_idx[s] = Len(items[s]) + 1

\* ------------------------------------------------------------------ C33
\* C33: a session that has ended has put a terminal status event (idle,
\* scan_paused or error) after its first status=scanning.
C33_EndedSessionHasTerminalStatus ==
    \A s \in Sessions :
        scan_pc[s] = "done" =>
            /\ scan_events[s][1] = StatusEvent("scanning", "starting")
            /\ TerminalStatus(Last(scan_events[s]))

\* ------------------------------------------------------------------ C34
\* C34: a scanner held at the pause checkpoint is not blocked once cancel
\* has been requested: it can go on to read the cancel flag.
C34_CancelObservableWhilePaused ==
    \A s \in Sessions :
        (scan_pc[s] = "wait" /\ is_scan_cancelled) => ENABLED ScanWait(s)

C36_RejectedTriggerKeepsFlags ==
    [][(is_scan_cancelled /\ ~is_scan_cancelled') =>
           \E s \in Sessions : scan_pc[s] = "unused" /\ scan_pc'[s] = "queued"]_vars

\* ----------------------------------------- enrichment with items without id
\* The item and enrichment tasks with the route handlers, the scanners
\* submitting items with and without an id.
InitSkip == InitCommon /\ content_collection \in InitStores
NextSkip == NextEnrich \/ MatchNoId \/ ItemSkip
SpecSkip == InitSkip /\ [][NextSkip]_vars

\* ------------------------------------------------------------------ C37
\* C37: the task of an item without id ends at once: it puts no event,
\* leaves the dedup set and the store as they are, submits nothing to the
\* slow pool, and the scanners and the other item tasks are where they were.
C37_ItemWithoutIdDropped ==
    [][skipped' # skipped =>
          /\ noid_queue' = noid_queue - 1
          /\ processed_ids_this_session' = processed_ids_this_session
          /\ content_collection' = content_collection
          /\ UNCHANGED <<update_queue, scan_events, item_events, ops_events>>
          /\ UNCHANGED <<ai_pc, submits, ai_calls>>
          /\ UNCHANGED <<scan_pc, fast_queue, item_pc, handled>>]_vars

\* An item without id was dropped and an item with an id, submitted as
\* well, is on its way to the slow pool.
C37_Witness ==
    /\ skipped = 1 /\ noid_queue = 0
    /\ \E id \in Ids : item_pc[id] = "submit" /\ processed_ids_this_session = {id}

\* ------------------------------------------------------------------ C38
\* C38: within a session current_page never decreases and moves by one at
\* a time, it moves only past the page requested last once every item of
\* that page went through the item loop, and the session requests at most
\* PAGES_PER_SCAN pages.
C38_CursorAdvancesPerPage ==
    [][\A s \in Sessions :
          scan_pc[s] # "unused" =>
              /\ current_page'[s] \in {current_page[s], current_page[s] + 1}
              /\ current_page'[s] # current_page[s] =>
                    /\ fetched[s] # <<>> /\ Last(fetched[s]) = current_page[s]
                    /\ item_idx[s] = Len(items[s]) + 1
              /\ Len(fetched'[s]) <= PAGES_PER_SCAN]_vars

\* --------------------------------------------------- git-sauron on its own
\* One scan of a repository with its pool of issue tasks and the operator's
\* resume requests.
InitGithub == InitCommon /\ content_collection = [id \in Ids |-> NoDoc]
NextGithub ==
    \/ \E page \in 1..MaxGhPages : scan_github(page)
    \/ \E valid_repo \in BOOLEAN : GhStart(valid_repo)
    \/ \E outcome \in {"ok", "request_failed"} : GhFetch(outcome)
    \/ \E matched \in BOOLEAN : GhIssue(matched)
    \/ GhAfterIssues
    \/ GhExit
    \/ \E outcome \in {"reply", "rate_limit"} : GhTask(outcome)
    \/ gh_resume_operations
SpecGithub == InitGithub /\ [][NextGithub]_vars

\* ------------------------------------------------------------------ C39
GhIsScanPaused(e) == e.status = "scan_paused"

\* C39: when the scan has put status=scan_paused, every issue of every page
\* from start_page up to the page before next_page went through
\* check_if_issue_matches.
C39_PausedCursorLosesNoIssue ==
    \A k \in 1..Len(gh_events) :
        GhIsScanPaused(gh_events[k]) =>
            \A p \in gh_start_page..(gh_events[k].next_page - 1) :
                gh_checked[p] = GhPageSize(p)

====
